---- MODULE Spec2Model ----
(***************************************************************************)
(* State-machine model of mcp_maven_central_search:                        *)
(*   cache.py        AsyncTTLCache, InFlightDeduper                        *)
(*   central_api.py  MavenCentralHttpClient (semaphore, retry loop)        *)
(*   pom.py          download_pom                                          *)
(*   server.py       get_latest_version_core (cache + deduper facade)      *)
(*                                                                         *)
(* The program runs on one asyncio event loop: a coroutine runs without    *)
(* interruption from one suspension point to the next, so each action      *)
(* below is the code between two suspension points.  The                   *)
(* specifications share the variables:                                     *)
(*   SpecSF      InFlightDeduper.run with an arbitrary producer            *)
(*   SpecFacade  get_latest_version_core over the cache and the deduper    *)
(*   SpecHttp    concurrent get_json and download_pom calls on one client  *)
(*   SpecClient  MavenCentralHttpClient(...) and the retry loop of one     *)
(*               get_json call, for every constructor argument             *)
(*   SpecCache   AsyncTTLCache get / set / delete / clear and the clock    *)
(***************************************************************************)
EXTENDS Integers, Sequences, FiniteSets, TLC

\* ---------------------------------------------------------------- bounds

\* Number of callers (asyncio tasks calling run / a *_core function once),
\* numbered in the order in which they make their call.
NumCallers == 3
\* Number of distinct keys, numbered in the order of their first use.
NumKeys == 2

Callers == 1..NumCallers
Keys == 1..NumKeys
\* A computation instance (the asyncio.Task created at cache.py:165).  Every
\* call creates at most one, so there are never more than NumCallers.
Tasks == 1..NumCallers
NoTask == 0
NoOne == 0
\* Number of times the monotonic clock advances (by ClockStep each time).
MaxTicks == 2

\* Number of requests made to the HTTP client (get_json or download_pom),
\* numbered in the order in which they are made.
NumRequests == 3
\* MavenCentralHttpClient(concurrency=...), central_api.py:125-128.
Concurrency == 2
\* MavenCentralHttpClient(max_retries=...), central_api.py:123.
MaxRetries == 1

Requests == 1..NumRequests

\* Largest max_retries argument given to the constructor in SpecClient.
MaxRetryArg == 3
\* Largest max_entries of the cache in SpecCache.
MaxCapacity == 2

\* config.py:32-34, the defaults of Settings
HTTP_TIMEOUT_SECONDS == 10
HTTP_MAX_RETRIES == 2
HTTP_CONCURRENCY == 10
\* central_api.py:164, the base delay 0.05 s in milliseconds
BASE_DELAY_MS == 50

\* server.py:40-41
CACHE_TTL_SECONDS == 60
CACHE_MAX_ENTRIES == 256
\* The clock advances in steps of half a TTL, so that an entry is read both
\* before and exactly at its expiry time.
ClockStep == CACHE_TTL_SECONDS \div 2

VARIABLES
  \* --- InFlightDeduper (cache.py:133-186)
  dedupLock,   \* holder of InFlightDeduper._lock, NoOne when free
  inflight,    \* InFlightDeduper._inflight: key -> registered task or NoTask
  tKey,        \* task -> key it was created for (0: not created)
  tState,      \* task -> "absent" | "created" | "running" | "done"
  tOutcome,    \* task -> "none" | "value" | "error" | "cancelled"
  tCleaned,    \* task -> what its _cleanup done-callback did:
               \*   "pending" (not run yet) | "removed" (popped its entry) | "kept"
  calls,       \* key -> number of coro_factory() invocations (the tests' counter)
  \* --- callers of run / of the facade
  pc,          \* caller -> "idle" | "awaiting" | "returned" | "raised" | "cancelled"
  cKey,        \* caller -> key of its call (0 before the call)
  joined,      \* caller -> task it awaits (NoTask: none)
  result,      \* caller -> outcome it received: [kind, by] (by: producing task)
  epoch,       \* caller -> computations of its key already finished when it called
  staleJoin,   \* caller -> the task it was handed had already finished at the call
  cancelledEarly, \* caller -> it was cancelled before its computation finished
  liveAtCall,  \* caller -> the cache held an unexpired entry for its key at the call
  \* --- AsyncTTLCache (cache.py:34-130) behind get_latest_version_core
  cache,       \* [data: key -> [value, expires_at], order: sequence of keys]
  now,         \* the monotonic clock (self._now())
  upstream,    \* key -> number of _fetch_versions calls made for it
  \* --- MavenCentralHttpClient (central_api.py:98-211) and download_pom
  sem,         \* permits left in self._sem
  hpc,         \* request -> "idle" | "acquire" | "net" | "backoff" | "pom_net"
               \*            | "returned" | "raised" | "cancelled"
  attempt,     \* request -> get_json's loop variable `attempt`
  holds,       \* request -> it holds a permit of self._sem
  netCalls,    \* request -> network calls it has issued
  sleeps,      \* request -> the backoff delays it has slept, in milliseconds
  hres,        \* request -> what the call returned or raised: [kind, status]
  client,      \* the MavenCentralHttpClient: [state, timeout_seconds, max_retries]
               \*   state: "none" (not constructed) | "built" | "rejected"
  ctorArgs,    \* the arguments the constructor was called with
  hist,        \* request -> [url, outcomes]: the URL it was called with and
               \*   what each of its network calls ended in, in order
  \* --- AsyncTTLCache on its own (SpecCache)
  self_max_entries, \* self._max_entries
  lastSet,     \* key -> the last set of the key not undone since by a delete,
               \*   a clear, an eviction or an overwrite: [value, expires, valid]
               \*   with expires the clock time of the set plus its TTL
  lastOp,      \* the cache operation made last at the current clock time:
               \*   [op, key, value (what get returned), evicted (set evicted),
               \*    pos (where the key stood in the order before; for clear,
               \*    the number of keys in the order before)]
  cacheLock,   \* AsyncTTLCache._lock: "free" | "held"
  cacheCtor,   \* AsyncTTLCache(default_ttl_seconds=, max_entries=): the
               \*   arguments and the outcome: [state, default_ttl_seconds, max_entries]
  setRank,     \* key -> rank of the time of its most recent set among the
               \*   keys stored (1 = set longest ago), 0 for a key not stored
  \* --- version filtering and ordering (SpecVersions)
  vArgs,       \* [all_versions (what _fetch_versions returned),
               \*  include_prereleases, max_versions]
  vOut,        \* what was computed from vArgs last: [op, kind, latest, versions, cmp]
  \* --- the three query types of server.py (SpecQueries)
  nsCache,     \* pair -> the entries of that pair's cache: a set of [key, resp]
  nsInflight,  \* pair -> the entries of that pair's deduper: a set of [key, task]
  nsTasks,     \* the tasks created by the dedupers, in order of creation:
               \*   [type, key, state ("running" | "ok" | "failed")]
  nsCall       \* caller -> its query: [pc ("idle" | "waiting" | "done"), type,
               \*   args, awaits (the task awaited), result]

dedupVars == <<dedupLock, inflight, tKey, tState, tOutcome, tCleaned, calls>>
callerVars == <<pc, cKey, joined, result, epoch, staleJoin, cancelledEarly, liveAtCall>>
cacheVars == <<cache, now, upstream>>
httpVars == <<sem, hpc, attempt, holds, netCalls, sleeps, hres>>
clientVars == <<client, ctorArgs, hist>>
ttlVars == <<self_max_entries, lastSet, lastOp, cacheLock, cacheCtor, setRank>>
verVars == <<vArgs, vOut>>
nsVars == <<nsCache, nsInflight, nsTasks, nsCall>>
vars == <<dedupVars, callerVars, cacheVars, httpVars, clientVars, ttlVars, verVars, nsVars>>

NoResult == [kind |-> "none", by |-> NoTask]

\* ------------------------------------------------- InFlightDeduper helpers

\* task.done()
Done(t) == tState[t] = "done"

\* Tasks created so far; ids are handed out in creation order.
Created == {t \in Tasks : tState[t] # "absent"}
FreshTask == Cardinality(Created) + 1

\* Number of computations for key k that have finished.
Finished(k) == Cardinality({t \in Tasks : tKey[t] = k /\ Done(t)})

\* cache.py:159  `if task is None or task.done()`
NeedsNewTaskAlways(cur) == TRUE
NeedsNewTaskIgnoringDone(cur) == cur = NoTask
NeedsNewTask(cur) == cur = NoTask \/ Done(cur)

\* cache.py:157-178: the `async with self._lock` block ends at line 174, so the
\* lock is released before `await asyncio.shield(task)` at line 178.
LockHeldAcrossAwait(c) == c
LockAtAwait(c) == NoOne

\* Callers are interchangeable; they are numbered by the order of their calls.
NextToCall(c) == \A d \in Callers : d < c => pc[d] # "idle"

\* Keys are interchangeable; they are numbered by the order of their first use.
NextKeys == {k \in Keys : k = 1 \/ \E d \in Callers : cKey[d] = k - 1}

\* cache.py:183-186
has_inflight_ignoring_done(k) == inflight[k] # NoTask
has_inflight(k) == inflight[k] # NoTask /\ ~Done(inflight[k])

\* ------------------------------------------------- InFlightDeduper.run

\* cache.py:157-178 up to the suspension in `await asyncio.shield(task)`.
\* asyncio.Lock.acquire does not suspend when the lock is free, and nothing
\* inside the block awaits, so lookup, creation, registration and release are
\* one step.  create_task only schedules _runner: the producer starts later.
RunRegister(c, k) ==
  /\ pc[c] = "idle"
  /\ NextToCall(c)
  /\ dedupLock = NoOne
  /\ LET cur == inflight[k]
         new == NeedsNewTask(cur)
         t == IF new THEN FreshTask ELSE cur
     IN /\ t \in Tasks
        /\ IF new
             THEN /\ tKey' = [tKey EXCEPT ![t] = k]
                  /\ tState' = [tState EXCEPT ![t] = "created"]
                  /\ inflight' = [inflight EXCEPT ![k] = t]
             ELSE UNCHANGED <<tKey, tState, inflight>>
        /\ joined' = [joined EXCEPT ![c] = t]
        /\ staleJoin' = [staleJoin EXCEPT ![c] = (~new /\ Done(t))]
  /\ dedupLock' = LockAtAwait(c)
  /\ pc' = [pc EXCEPT ![c] = "awaiting"]
  /\ cKey' = [cKey EXCEPT ![c] = k]
  /\ epoch' = [epoch EXCEPT ![c] = Finished(k)]
  /\ UNCHANGED <<tOutcome, tCleaned, calls, cancelledEarly>>

\* cache.py:162-163 _runner starts: coro_factory() is invoked, the producer runs
\* to its first suspension.
RunnerStart(t) ==
  /\ tState[t] = "created"
  /\ tState' = [tState EXCEPT ![t] = "running"]
  /\ calls' = [calls EXCEPT ![tKey[t]] = @ + 1]
  /\ UNCHANGED <<dedupLock, inflight, tKey, tOutcome, tCleaned>>

\* The task finishes with the producer's value or exception (cache.py:163).
\* Its done-callbacks are scheduled, not yet run.
FinishTask(t, kind) ==
  /\ tState[t] = "running"
  /\ tState' = [tState EXCEPT ![t] = "done"]
  /\ tOutcome' = [tOutcome EXCEPT ![t] = kind]
  /\ UNCHANGED <<dedupLock, inflight, tKey, tCleaned, calls>>

\* cache.py:170  `if self._inflight.get(key) is _t`
CleanupAlwaysPops(t) == TRUE
CleanupOwnsEntry(t) == inflight[tKey[t]] = t

\* cache.py:167-171 _cleanup(_t), the task's first done-callback.
Cleanup(t) ==
  /\ Done(t)
  /\ tCleaned[t] = "pending"
  /\ tCleaned' = [tCleaned EXCEPT ![t] = IF CleanupOwnsEntry(t) THEN "removed" ELSE "kept"]
  /\ inflight' = IF CleanupOwnsEntry(t)
                   THEN [inflight EXCEPT ![tKey[t]] = NoTask]
                   ELSE inflight
  /\ UNCHANGED <<dedupLock, tKey, tState, tOutcome, calls>>

\* What a waiter gets from the finished task: its value or its exception
\* (cache.py:178-181, the except clause re-raises unchanged).
OutcomeConsumedByFirst(c) ==
  IF \E d \in Callers : d # c /\ joined[d] = joined[c] /\ pc[d] \in {"returned", "raised"}
    THEN [kind |-> "none", by |-> joined[c]]
    ELSE [kind |-> tOutcome[joined[c]], by |-> joined[c]]
OutcomeFor(c) == [kind |-> tOutcome[joined[c]], by |-> joined[c]]

\* cache.py:178 the suspended `await asyncio.shield(task)` resumes.  shield's
\* callback was added to the task after _cleanup (line 173 precedes line 178)
\* and done-callbacks run in the order added, so _cleanup has run by then.
Deliver(c) ==
  /\ pc[c] = "awaiting"
  /\ Done(joined[c])
  /\ tCleaned[joined[c]] # "pending"
  /\ result' = [result EXCEPT ![c] = OutcomeFor(c)]
  /\ pc' = [pc EXCEPT ![c] = IF OutcomeFor(c).kind = "value" THEN "returned" ELSE "raised"]
  /\ UNCHANGED <<cKey, joined, epoch, staleJoin, cancelledEarly, liveAtCall>>

\* cache.py:178 asyncio.shield: cancelling the waiter cancels only the outer
\* future; the inner task is left as it is.
UnshieldedInner(t) ==
  [state |-> [tState EXCEPT ![t] = "done"],
   outcome |-> [tOutcome EXCEPT ![t] = IF Done(t) THEN @ ELSE "cancelled"]]
ShieldedInner(t) == [state |-> tState, outcome |-> tOutcome]

\* The caller's task is cancelled while suspended at cache.py:178:
\* CancelledError is raised in that caller only.
Cancel(c) ==
  /\ pc[c] = "awaiting"
  /\ pc' = [pc EXCEPT ![c] = "cancelled"]
  /\ result' = [result EXCEPT ![c] = [kind |-> "CancelledError", by |-> NoTask]]
  /\ cancelledEarly' = [cancelledEarly EXCEPT ![c] = ~Done(joined[c])]
  /\ tState' = ShieldedInner(joined[c]).state
  /\ tOutcome' = ShieldedInner(joined[c]).outcome
  /\ UNCHANGED <<dedupLock, inflight, tKey, tCleaned, calls>>
  /\ UNCHANGED <<cKey, joined, epoch, staleJoin, liveAtCall>>

\* ------------------------------------------------- SpecSF

InitDedup ==
  /\ dedupLock = NoOne
  /\ inflight = [k \in Keys |-> NoTask]
  /\ tKey = [t \in Tasks |-> 0]
  /\ tState = [t \in Tasks |-> "absent"]
  /\ tOutcome = [t \in Tasks |-> "none"]
  /\ tCleaned = [t \in Tasks |-> "pending"]
  /\ calls = [k \in Keys |-> 0]

InitCallers ==
  /\ pc = [c \in Callers |-> "idle"]
  /\ cKey = [c \in Callers |-> 0]
  /\ joined = [c \in Callers |-> NoTask]
  /\ result = [c \in Callers |-> NoResult]
  /\ epoch = [c \in Callers |-> 0]
  /\ staleJoin = [c \in Callers |-> FALSE]
  /\ cancelledEarly = [c \in Callers |-> FALSE]
  /\ liveAtCall = [c \in Callers |-> FALSE]

InitCache ==
  /\ cache = [data |-> <<>>, order |-> <<>>]
  /\ now = 0
  /\ upstream = [k \in Keys |-> 0]

\* What a request ended in: "json" / "text" (returned), or the exception
\* raised, with the response status for an HTTPStatusError.
Outcome(kind, status) == [kind |-> kind, status |-> status]

\* --- constructor arguments.  An optional integer argument is either left
\* out (None) or given; Python's `x or d` takes d for None and for 0.
NoArg == [given |-> FALSE, v |-> 0]
Arg(v) == [given |-> TRUE, v |-> v]
Truthy(a) == a.given /\ a.v # 0
\* `a or d` (central_api.py:122, 125)
or_default(a, d) == IF Truthy(a) THEN a.v ELSE d
\* `a if a is not None else d` (central_api.py:123)
if_not_none(a, d) == IF a.given THEN a.v ELSE d

\* --- URLs are strings: sequences of characters.
NoUrl == [given |-> FALSE, v |-> <<>>]
Url(chars) == [given |-> TRUE, v |-> chars]
HTTPS_URL == <<"h", "t", "t", "p", "s", ":", "/", "/", "x">>
UPPER_HTTPS_URL == <<"H", "T", "T", "P", "S", ":", "/", "/", "x">>
HTTP_URL == <<"h", "t", "t", "p", ":", "/", "/", "x">>
\* Settings().MAVEN_CENTRAL_BASE_URL (config.py:28) is an https URL.
MAVEN_CENTRAL_BASE_URL == HTTPS_URL

\* str.lower() on the characters that occur
LowerChar(ch) ==
  CASE ch = "H" -> "h" [] ch = "T" -> "t" [] ch = "P" -> "p" [] ch = "S" -> "s"
    [] ch = "A" -> "a" [] ch = "G" -> "g" [] ch = "N" -> "n" [] ch = "O" -> "o"
    [] OTHER -> ch
lower(str) == [i \in 1..Len(str) |-> LowerChar(str[i])]
\* str.startswith(prefix)
startswith(str, prefix) ==
  Len(str) >= Len(prefix) /\ SubSeq(str, 1, Len(prefix)) = prefix

\* central_api.py:119 and 172  `url.lower().startswith("https://")`
IsHttpAnyScheme(url) == startswith(lower(url), <<"h", "t", "t", "p">>)
IsHttps(url) == startswith(lower(url), <<"h", "t", "t", "p", "s", ":", "/", "/">>)

\* central_api.py:128  `if conc < 1: raise ValueError`
ConcurrencyUnchecked(conc) == FALSE
ConcurrencyRejected(conc) == conc < 1

\* central_api.py:105-132 __init__: the client it builds (its fields and the
\* permits of its semaphore), or "rejected" when it raises ValueError.
construct(base_url, timeout_seconds, max_retries_arg, concurrency) ==
  LET base == IF base_url.given /\ base_url.v # <<>> THEN base_url.v
              ELSE MAVEN_CENTRAL_BASE_URL
      timeout == or_default(timeout_seconds, HTTP_TIMEOUT_SECONDS)
      retries == if_not_none(max_retries_arg, HTTP_MAX_RETRIES)
      conc == or_default(concurrency, HTTP_CONCURRENCY)
      rejected == [state |-> "rejected", timeout_seconds |-> 0, max_retries |-> 0,
                   permits |-> 0]
  IN IF ~IsHttps(base) THEN rejected
     ELSE IF ConcurrencyRejected(conc) THEN rejected
     ELSE [state |-> "built", timeout_seconds |-> timeout, max_retries |-> retries,
           permits |-> conc]

NoClient == [state |-> "none", timeout_seconds |-> 0, max_retries |-> 0]
NoCtorArgs ==
  [base_url |-> NoUrl, timeout_seconds |-> NoArg, max_retries |-> NoArg,
   concurrency |-> NoArg]
NoHist == [url |-> <<>>, outcomes |-> <<>>]

\* No request has been made.
InitRequests ==
  /\ hpc = [r \in Requests |-> "idle"]
  /\ attempt = [r \in Requests |-> 0]
  /\ holds = [r \in Requests |-> FALSE]
  /\ netCalls = [r \in Requests |-> 0]
  /\ sleeps = [r \in Requests |-> <<>>]
  /\ hres = [r \in Requests |-> Outcome("none", 0)]
  /\ hist = [r \in Requests |-> NoHist]

\* central_api.py:105-132: the client
\* MavenCentralHttpClient(max_retries=MaxRetries, concurrency=Concurrency).
InitHttp ==
  /\ InitRequests
  /\ ctorArgs = [NoCtorArgs EXCEPT !.max_retries = Arg(MaxRetries),
                                   !.concurrency = Arg(Concurrency)]
  /\ LET c == construct(NoUrl, NoArg, Arg(MaxRetries), Arg(Concurrency)) IN
       /\ sem = c.permits
       /\ client = [state |-> c.state, timeout_seconds |-> c.timeout_seconds,
                    max_retries |-> c.max_retries]

\* What get returns for an absent key (Python's None), and a stored value:
\* the response for `key` built by computation `by`.
None == [key |-> 0, by |-> NoTask]
Response(k, t) == [key |-> k, by |-> t]

\* The cache of server.py:43 with nothing stored.
NoSet == [value |-> None, expires |-> 0, valid |-> FALSE]
NoOp == [op |-> "none", key |-> 0, value |-> None, evicted |-> FALSE, pos |-> 0]
\* server.py:43-46  AsyncTTLCache(default_ttl_seconds=_CACHE_TTL_SECONDS,
\* max_entries=_CACHE_MAX_ENTRIES)
InitTtl ==
  /\ self_max_entries = CACHE_MAX_ENTRIES
  /\ lastSet = [k \in Keys |-> NoSet]
  /\ lastOp = NoOp
  /\ cacheLock = "free"
  /\ cacheCtor = [state |-> "built", default_ttl_seconds |-> CACHE_TTL_SECONDS,
                  max_entries |-> CACHE_MAX_ENTRIES]
  /\ setRank = [k \in Keys |-> 0]

\* No version (None), and nothing computed yet.
NoVersion == <<>>
NoVOut == [op |-> "none", kind |-> "none", latest |-> NoVersion, versions |-> <<>>,
           cmp |-> <<>>]
\* No query for versions has been made.
InitVer ==
  /\ vArgs = [all_versions |-> <<>>, include_prereleases |-> FALSE, max_versions |-> 0]
  /\ vOut = NoVOut

\* server.py:43-67: the cache and the deduper of a query type, named by what
\* the two module variables have in common.
Pairs == {"_versions", "_versions_list", "_declared_deps"}
\* No query has been made, no result.
NoArgs == <<>>
NoResp == [kind |-> "none", type |-> "none", key |-> <<>>]
NoCall == [pc |-> "idle", type |-> "none", args |-> NoArgs, awaits |-> 0, result |-> NoResp]
\* The module-level caches and dedupers are empty after import.
InitNs ==
  /\ nsCache = [p \in Pairs |-> {}]
  /\ nsInflight = [p \in Pairs |-> {}]
  /\ nsTasks = <<>>
  /\ nsCall = [c \in Callers |-> NoCall]

InitSF == InitDedup /\ InitCallers /\ InitCache /\ InitHttp /\ InitTtl /\ InitVer /\ InitNs

SFRun ==
  \E c \in Callers, k \in NextKeys :
    RunRegister(c, k) /\ UNCHANGED <<result, liveAtCall>> /\ UNCHANGED <<cacheVars, httpVars, clientVars, ttlVars, verVars, nsVars>>
SFStart == \E t \in Tasks : RunnerStart(t) /\ UNCHANGED <<callerVars, cacheVars, httpVars, clientVars, ttlVars, verVars, nsVars>>
SFFinish ==
  \E t \in Tasks, kind \in {"value", "error"} :
    FinishTask(t, kind) /\ UNCHANGED <<callerVars, cacheVars, httpVars, clientVars, ttlVars, verVars, nsVars>>
SFCleanup == \E t \in Tasks : Cleanup(t) /\ UNCHANGED <<callerVars, cacheVars, httpVars, clientVars, ttlVars, verVars, nsVars>>
SFDeliver == \E c \in Callers : Deliver(c) /\ UNCHANGED <<dedupVars, cacheVars, httpVars, clientVars, ttlVars, verVars, nsVars>>
SFCancel == \E c \in Callers : Cancel(c) /\ UNCHANGED <<cacheVars, httpVars, clientVars, ttlVars, verVars, nsVars>>

NextSF == SFRun \/ SFStart \/ SFFinish \/ SFCleanup \/ SFDeliver \/ SFCancel

SpecSF == InitSF /\ [][NextSF]_vars

\* add_done_callback (cache.py:173) schedules _cleanup with call_soon when the
\* task finishes, and the event loop runs every scheduled callback.
SpecSFLive == SpecSF /\ WF_vars(SFCleanup)

\* ------------------------------------------------- AsyncTTLCache

\* The keys of a sequence of keys.
Range(seq) == {seq[i] : i \in 1..Len(seq)}
Without(seq, k) == SelectSeq(seq, LAMBDA x : x # k)

\* cache.py:100-103
delete_nothing(C, key) == C
delete_data_only(C, key) ==
  [data |-> [k \in DOMAIN C.data \ {key} |-> C.data[k]], order |-> C.order]
delete_unlocked(C, key) ==
  [data |-> [k \in DOMAIN C.data \ {key} |-> C.data[k]],
   order |-> IF key \in Range(C.order) THEN Without(C.order, key) ELSE C.order]

\* cache.py:116  `if entry.expires_at <= now`
ExpiredStrictlyAfter(entry, t) == entry.expires_at < t
Expired(entry, t) == entry.expires_at <= t

\* cache.py:105-119: the keys of _order whose entry is missing or expired are
\* collected, then deleted one by one.
purge_expired_unlocked(C, t) ==
  IF DOMAIN C.data = {}
    THEN C
    ELSE LET to_remove == {k \in Range(C.order) :
                             k \notin DOMAIN C.data \/ Expired(C.data[k], t)}
         IN [data |-> [k \in DOMAIN C.data \ to_remove |-> C.data[k]],
             order |-> SelectSeq(C.order, LAMBDA x : x \notin to_remove)]

\* cache.py:121-130
evict_nothing(C, max_entries) == C
RECURSIVE evict_newest(_, _)
evict_newest(C, max_entries) ==
  IF Cardinality(DOMAIN C.data) > max_entries /\ C.order # <<>>
    THEN evict_newest(
           [data |-> [k \in DOMAIN C.data \ {C.order[Len(C.order)]} |-> C.data[k]],
            order |-> SubSeq(C.order, 1, Len(C.order) - 1)], max_entries)
    ELSE C
RECURSIVE evict_if_needed_unlocked(_, _)
evict_if_needed_unlocked(C, max_entries) ==
  IF Cardinality(DOMAIN C.data) > max_entries /\ C.order # <<>>
    THEN evict_if_needed_unlocked(
           [data |-> [k \in DOMAIN C.data \ {Head(C.order)} |-> C.data[k]],
            order |-> Tail(C.order)], max_entries)
    ELSE C

\* cache.py:84-87: the key is removed from _order if present, then appended.
keep_position(order, key) == IF key \in Range(order) THEN order ELSE Append(order, key)
refresh_order(order, key) ==
  Append(IF key \in Range(order) THEN Without(order, key) ELSE order, key)

\* cache.py:63-74: the cache after the call and the value returned.
get_lru(C, key, t) ==
  LET P == purge_expired_unlocked(C, t) IN
  IF key \notin DOMAIN P.data
    THEN [cache |-> P, value |-> None]
    ELSE [cache |-> [data |-> P.data, order |-> refresh_order(P.order, key)],
          value |-> P.data[key].value]
get(C, key, t) ==
  LET P == purge_expired_unlocked(C, t) IN
  IF key \notin DOMAIN P.data
    THEN [cache |-> P, value |-> None]
    ELSE IF Expired(P.data[key], t)
           THEN [cache |-> delete_unlocked(P, key), value |-> None]
           ELSE [cache |-> P, value |-> P.data[key].value]

\* cache.py:76-88 with ttl already resolved (line 81).
set_without_purge(C, key, value, ttl, t, max_entries) ==
  LET entry == [value |-> value, expires_at |-> t + ttl]
      D == [k \in DOMAIN C.data \cup {key} |-> IF k = key THEN entry ELSE C.data[k]]
      O == refresh_order(C.order, key)
  IN evict_if_needed_unlocked([data |-> D, order |-> O], max_entries)
set(C, key, value, ttl, t, max_entries) ==
  LET P == purge_expired_unlocked(C, t)
      entry == [value |-> value, expires_at |-> t + ttl]
      D == [k \in DOMAIN P.data \cup {key} |-> IF k = key THEN entry ELSE P.data[k]]
      O == refresh_order(P.order, key)
  IN evict_if_needed_unlocked([data |-> D, order |-> O], max_entries)

\* The entry for key is present and not expired at time t.
Live(C, key, t) == key \in DOMAIN C.data /\ ~(C.data[key].expires_at <= t)

\* ------------------------------------------------- get_latest_version_core

\* server.py:140-142  `if cached is not None: return cached`
CacheNeverHits(v) == FALSE
IsHit(v) == v # None

\* server.py:134-169 up to the first suspension.  Neither lock is ever held
\* across a suspension, so _versions_cache.get and the registration in
\* _deduper.run run without the event loop switching tasks in between.
Query(c, k) ==
  /\ pc[c] = "idle"
  /\ NextToCall(c)
  /\ LET g == get(cache, k, now) IN
     /\ cache' = g.cache
     /\ liveAtCall' = [liveAtCall EXCEPT ![c] = Live(cache, k, now)]
     /\ IF IsHit(g.value)
          THEN /\ pc' = [pc EXCEPT ![c] = "returned"]
               /\ cKey' = [cKey EXCEPT ![c] = k]
               /\ epoch' = [epoch EXCEPT ![c] = Finished(k)]
               /\ result' = [result EXCEPT ![c] = [kind |-> "value", by |-> g.value.by]]
               /\ UNCHANGED <<joined, staleJoin, cancelledEarly>>
               /\ UNCHANGED dedupVars
          ELSE /\ RunRegister(c, k)
               /\ UNCHANGED result
  /\ UNCHANGED <<now, upstream>>

\* server.py:144-145 _compute starts: it calls _fetch_versions, which suspends
\* in client.get_json (server.py:91).
ComputeStart(t) ==
  /\ RunnerStart(t)
  /\ upstream' = [upstream EXCEPT ![tKey[t]] = @ + 1]
  /\ UNCHANGED <<cache, now>>

\* What the rest of _compute makes of the fetch (server.py:145-167):
\*   "fetch_error"      get_json raised (server.py:91)
\*   "no_versions"      no version in the reply (server.py:146-149)
\*   "all_prereleases"  the stability filter left nothing (server.py:151-155)
\*   "response"         a response was built (server.py:157-165)
ComputeOutcomes == {"fetch_error", "no_versions", "all_prereleases", "response"}

\* server.py:166  `await _versions_cache.set(cache_key, resp)`
ComputeSkipsCacheSet(t) == cache
ComputeCacheSet(t) ==
  set(cache, tKey[t], Response(tKey[t], t), CACHE_TTL_SECONDS, now, CACHE_MAX_ENTRIES)

\* server.py:145-155  _compute raises before it reaches the cache.set of
\* line 166: the cache is left as it is.
CacheAfterFailureStoresPartial(t) == ComputeCacheSet(t)
CacheAfterFailure(t) == cache

\* server.py:145-167 after get_json returned or raised: _compute raises, or
\* stores the response and returns it; cache.set does not suspend.
ComputeFinish(t, oc) ==
  /\ IF oc = "response"
       THEN FinishTask(t, "value") /\ cache' = ComputeCacheSet(t)
       ELSE FinishTask(t, "error") /\ cache' = CacheAfterFailure(t)
  /\ UNCHANGED <<now, upstream>>

\* The monotonic clock advances.
Tick ==
  /\ now < MaxTicks * ClockStep
  /\ now' = now + ClockStep
  /\ UNCHANGED <<cache, upstream>>

\* ------------------------------------------------- SpecFacade

InitFacade == InitDedup /\ InitCallers /\ InitCache /\ InitHttp /\ InitTtl /\ InitVer /\ InitNs

FQuery == \E c \in Callers, k \in NextKeys : Query(c, k) /\ UNCHANGED <<httpVars, clientVars, ttlVars, verVars, nsVars>>
FComputeStart == \E t \in Tasks : ComputeStart(t) /\ UNCHANGED <<callerVars, httpVars, clientVars, ttlVars, verVars, nsVars>>
FComputeFinish ==
  \E t \in Tasks, oc \in ComputeOutcomes :
    ComputeFinish(t, oc) /\ UNCHANGED <<callerVars, httpVars, clientVars, ttlVars, verVars, nsVars>>
FCleanup == \E t \in Tasks : Cleanup(t) /\ UNCHANGED <<callerVars, cacheVars, httpVars, clientVars, ttlVars, verVars, nsVars>>
FDeliver == \E c \in Callers : Deliver(c) /\ UNCHANGED <<dedupVars, cacheVars, httpVars, clientVars, ttlVars, verVars, nsVars>>
FTick == Tick /\ UNCHANGED <<dedupVars, callerVars, httpVars, clientVars, ttlVars, verVars, nsVars>>

NextFacade ==
  FQuery \/ FComputeStart \/ FComputeFinish \/ FCleanup \/ FDeliver \/ FTick

SpecFacade == InitFacade /\ [][NextFacade]_vars

\* The facade with callers that can be cancelled while they await the shared
\* computation (cache.py:178).  The computation is a task of its own
\* (cache.py:165, kept referenced by _inflight), so the event loop runs it
\* whether or not anyone awaits it: once created it starts, its fetch returns
\* or raises, and its done-callback runs.
FCancelWaiter ==
  \E c \in Callers :
    Cancel(c) /\ UNCHANGED <<cacheVars, httpVars, clientVars, ttlVars, verVars, nsVars>>

NextFacadeCancel == NextFacade \/ FCancelWaiter

SpecFacadeCancel ==
  /\ InitFacade
  /\ [][NextFacadeCancel]_vars
  /\ \A t \in Tasks :
       /\ WF_vars(ComputeStart(t)
                    /\ UNCHANGED <<callerVars, httpVars, clientVars, ttlVars, verVars, nsVars>>)
       /\ WF_vars(\E oc \in ComputeOutcomes :
                    ComputeFinish(t, oc)
                      /\ UNCHANGED <<callerVars, httpVars, clientVars, ttlVars, verVars, nsVars>>)
       /\ WF_vars(Cleanup(t)
                    /\ UNCHANGED <<callerVars, cacheVars, httpVars, clientVars, ttlVars,
                                   verVars, nsVars>>)

\* ------------------------------------------------- MavenCentralHttpClient

\* Requests are interchangeable; they are numbered by the order of the calls.
NextRequest(r) == \A q \in Requests : q < r => hpc[q] # "idle"

\* What one network call can end in: a response with a status (and a body
\* that parses as JSON or not), or an exception raised by self._client.get.
Statuses == {200, 404, 429, 500}
ClientExceptions == {"ConnectTimeout", "ReadError", "PoolTimeout"}
NoExc == "none"
NoResponse == 0
NetOutcomes ==
  [exc : {NoExc}, status : Statuses, json_ok : {TRUE}]
    \cup {[exc |-> NoExc, status |-> 200, json_ok |-> FALSE]}
    \cup [exc : ClientExceptions, status : {NoResponse}, json_ok : {FALSE}]

\* isinstance(exc, (ConnectError, ReadTimeout, WriteError, RemoteProtocolError,
\* ConnectTimeout, NetworkError)), central_api.py:141-151.  ReadError is a
\* NetworkError; PoolTimeout and JSONDecodeError are none of these.
IsTransientAnyException(exc) == exc # NoExc
IsTransient(exc) ==
  exc \in {"ConnectError", "ReadTimeout", "WriteError", "RemoteProtocolError",
           "ConnectTimeout", "NetworkError", "ReadError"}

\* central_api.py:138-160 _should_retry(exc, response)
should_retry_exceptions_only(exc, status) == exc # NoExc /\ IsTransient(exc)
should_retry_any_error_status(exc, status) ==
  IF exc # NoExc THEN IsTransient(exc) ELSE status # NoResponse /\ status >= 400
should_retry(exc, status) ==
  IF exc # NoExc
    THEN IsTransient(exc)
    ELSE IF status = NoResponse
           THEN FALSE
           ELSE status = 429 \/ (500 <= status /\ status <= 599)

\* httpx.Response.raise_for_status raises for every status that is not 2xx.
IsSuccess(status) == 200 <= status /\ status <= 299

\* central_api.py:164 the delay of _backoff(n), in milliseconds.
backoff_delay_linear(n) == BASE_DELAY_MS * n
backoff_delay(n) == BASE_DELAY_MS * (2 ^ (IF n - 1 > 0 THEN n - 1 ELSE 0))

\* central_api.py:181  `for attempt in range(0, self._max_retries + 1)`:
\* the loop has an iteration for `attempt`.
InRange(a, retries) == 0 <= a /\ a < retries + 1

\* central_api.py:200  `attempt < self._max_retries`
MayRetryOnceMore(a, retries) == a <= retries
MayRetryOffByOne(a, retries) == a + 1 < retries
MayRetry(a, retries) == a < retries

\* central_api.py:184 `async with self._sem`: a permit can be taken.
SemAlwaysAvailable == TRUE
SemAvailable == sem > 0

\* central_api.py:184-196: the `async with self._sem` block ends before line
\* 198, so the permit is given back when the network call has returned,
\* whatever the call ended in.
PermitKeptForRetry(retry) == retry
PermitKeptAfterCall(retry) == FALSE

\* central_api.py:198-199 and 205-211: last_exc and last_response are
\* overwritten by every attempt, so what is raised after the loop is the last
\* attempt's exception, else the status error of the last attempt's response.
Exhausted(exc, resp) ==
  IF exc # NoExc THEN Outcome(exc, 0)
  ELSE IF resp # NoResponse THEN Outcome("HTTPStatusError", resp)
  ELSE Outcome("RuntimeError", 0)

\* central_api.py:167-181: the URL check, then the first loop iteration up to
\* `async with self._sem`.
GetJson(r, url) ==
  /\ client.state = "built"
  /\ hpc[r] = "idle"
  /\ NextRequest(r)
  /\ IF ~IsHttps(url)
       THEN \* line 173
            /\ hpc' = [hpc EXCEPT ![r] = "raised"]
            /\ hres' = [hres EXCEPT ![r] = Outcome("ValueError", 0)]
       ELSE IF InRange(0, client.max_retries)
         THEN /\ hpc' = [hpc EXCEPT ![r] = "acquire"]
              /\ UNCHANGED hres
         ELSE \* the loop body never runs: lines 206-211 with nothing recorded
              /\ hpc' = [hpc EXCEPT ![r] = "raised"]
              /\ hres' = [hres EXCEPT ![r] = Outcome("RuntimeError", 0)]
  /\ UNCHANGED <<sem, attempt, holds, netCalls, sleeps>>

\* central_api.py:184-186: the permit is taken and the network call issued.
Acquire(r) ==
  /\ hpc[r] = "acquire"
  /\ SemAvailable
  /\ sem' = sem - 1
  /\ holds' = [holds EXCEPT ![r] = TRUE]
  /\ netCalls' = [netCalls EXCEPT ![r] = @ + 1]
  /\ hpc' = [hpc EXCEPT ![r] = "net"]
  /\ UNCHANGED <<attempt, sleeps, hres>>

\* central_api.py:186-211: the network call ends in outcome o.  The code runs
\* without suspending until it returns, raises, or sleeps in _backoff.
NetReturn(r, o) ==
  /\ hpc[r] = "net"
  /\ LET \* line 186 raised: caught at 195, resp stays None
         raised == o.exc # NoExc
         resp == IF raised THEN NoResponse ELSE o.status
         \* lines 187-189
         terminal == ~raised /\ ~should_retry(NoExc, resp)
         \* line 188 raises HTTPStatusError; 190-193 re-raise it
         status_error == terminal /\ ~IsSuccess(resp)
         \* line 189 returns the parsed body
         parsed == terminal /\ IsSuccess(resp) /\ o.json_ok
         \* line 189 resp.json() raised; caught at 195
         exc == IF raised THEN o.exc
                ELSE IF terminal /\ IsSuccess(resp) /\ ~o.json_ok THEN "JSONDecodeError"
                ELSE NoExc
         \* line 200
         retry == MayRetry(attempt[r], client.max_retries) /\ should_retry(exc, resp)
         kept == PermitKeptAfterCall(retry)
     IN /\ holds' = [holds EXCEPT ![r] = kept]
        /\ sem' = IF kept THEN sem ELSE sem + 1
        /\ IF parsed
             THEN /\ hpc' = [hpc EXCEPT ![r] = "returned"]
                  /\ hres' = [hres EXCEPT ![r] = Outcome("json", resp)]
                  /\ UNCHANGED sleeps
             ELSE IF status_error
               THEN /\ hpc' = [hpc EXCEPT ![r] = "raised"]
                    /\ hres' = [hres EXCEPT ![r] = Outcome("HTTPStatusError", resp)]
                    /\ UNCHANGED sleeps
             ELSE IF retry
               THEN \* line 201: _backoff(attempt + 1) sleeps
                    /\ hpc' = [hpc EXCEPT ![r] = "backoff"]
                    /\ sleeps' = [sleeps EXCEPT ![r] = Append(@, backoff_delay(attempt[r] + 1))]
                    /\ UNCHANGED hres
               ELSE \* lines 203-209: last_exc, else the last response's status
                    /\ hpc' = [hpc EXCEPT ![r] = "raised"]
                    /\ hres' = [hres EXCEPT ![r] = Exhausted(exc, resp)]
                    /\ UNCHANGED sleeps
  /\ UNCHANGED <<attempt, netCalls>>

\* central_api.py:201-202 the sleep ends: `continue` starts the next iteration.
BackoffDone(r) ==
  /\ hpc[r] = "backoff"
  /\ attempt' = [attempt EXCEPT ![r] = @ + 1]
  /\ hpc' = [hpc EXCEPT ![r] = "acquire"]
  /\ UNCHANGED <<sem, holds, netCalls, sleeps, hres>>

\* The caller's task is cancelled while suspended in get_json or download_pom:
\* CancelledError is not an Exception, so it leaves through `async with`,
\* which gives back a held permit.
PermitLostOnCancel(r) == FALSE
PermitReleasedOnExit(r) == holds[r]

CancelRequest(r) ==
  /\ hpc[r] \in {"acquire", "net", "backoff", "pom_net"}
  /\ hpc' = [hpc EXCEPT ![r] = "cancelled"]
  /\ hres' = [hres EXCEPT ![r] = Outcome("CancelledError", 0)]
  /\ holds' = [holds EXCEPT ![r] = FALSE]
  /\ sem' = IF PermitReleasedOnExit(r) THEN sem + 1 ELSE sem
  /\ UNCHANGED <<attempt, netCalls, sleeps>>

\* ------------------------------------------------- download_pom

\* pom.py:49-56: the URL is built (a bad coordinate raises ValueError), then
\* the shared client's private httpx client is called directly.
DownloadPom(r, valid) ==
  /\ hpc[r] = "idle"
  /\ NextRequest(r)
  /\ IF valid
       THEN /\ hpc' = [hpc EXCEPT ![r] = "pom_net"]
            /\ netCalls' = [netCalls EXCEPT ![r] = @ + 1]
            /\ UNCHANGED hres
       ELSE /\ hpc' = [hpc EXCEPT ![r] = "raised"]
            /\ hres' = [hres EXCEPT ![r] = Outcome("ValueError", 0)]
            /\ UNCHANGED netCalls
  /\ UNCHANGED <<sem, attempt, holds, sleeps>>

\* pom.py:56-74: the call ends; the status is checked, the body read up to
\* _MAX_POM_BYTES and decoded.
PomOutcomes ==
  [exc : {NoExc}, status : Statuses, oversize : BOOLEAN]
    \cup [exc : ClientExceptions, status : {NoResponse}, oversize : {FALSE}]

PomReturn(r, o) ==
  /\ hpc[r] = "pom_net"
  /\ IF o.exc # NoExc
       THEN /\ hpc' = [hpc EXCEPT ![r] = "raised"]
            /\ hres' = [hres EXCEPT ![r] = Outcome(o.exc, 0)]
       ELSE IF ~IsSuccess(o.status)
         THEN /\ hpc' = [hpc EXCEPT ![r] = "raised"]
              /\ hres' = [hres EXCEPT ![r] = Outcome("HTTPStatusError", o.status)]
       ELSE IF o.oversize
         THEN /\ hpc' = [hpc EXCEPT ![r] = "raised"]
              /\ hres' = [hres EXCEPT ![r] = Outcome("ValueError", 0)]
         ELSE /\ hpc' = [hpc EXCEPT ![r] = "returned"]
              /\ hres' = [hres EXCEPT ![r] = Outcome("text", o.status)]
  /\ UNCHANGED <<sem, attempt, holds, netCalls, sleeps>>

\* ------------------------------------------------- SpecHttp

\* The URLs get_json is called with.
Urls == {HTTPS_URL, UPPER_HTTPS_URL, HTTP_URL}

InitHttpSpec == InitDedup /\ InitCallers /\ InitCache /\ InitHttp /\ InitTtl /\ InitVer /\ InitNs

restOfHttp == <<dedupVars, callerVars, cacheVars, clientVars, ttlVars, verVars, nsVars>>

HGetJson == \E r \in Requests, url \in Urls : GetJson(r, url) /\ UNCHANGED restOfHttp
HAcquire == \E r \in Requests : Acquire(r) /\ UNCHANGED restOfHttp
HNetReturn == \E r \in Requests, o \in NetOutcomes : NetReturn(r, o) /\ UNCHANGED restOfHttp
HBackoffDone == \E r \in Requests : BackoffDone(r) /\ UNCHANGED restOfHttp
HCancel == \E r \in Requests : CancelRequest(r) /\ UNCHANGED restOfHttp
HDownloadPom == \E r \in Requests, valid \in BOOLEAN : DownloadPom(r, valid) /\ UNCHANGED restOfHttp
HPomReturn == \E r \in Requests, o \in PomOutcomes : PomReturn(r, o) /\ UNCHANGED restOfHttp

NextHttp ==
  HGetJson \/ HAcquire \/ HNetReturn \/ HBackoffDone \/ HCancel \/ HDownloadPom \/ HPomReturn

SpecHttp == InitHttpSpec /\ [][NextHttp]_vars

\* The scheduling get_json relies on: every network call completes (the
\* httpx timeout, central_api.py:128-132), every asyncio.sleep of _backoff
\* completes (central_api.py:162-165), and asyncio.Semaphore wakes its waiters
\* first come first served, so a waiter for which a permit becomes free again
\* and again gets one (central_api.py:184).
SpecHttpLive ==
  /\ SpecHttp
  /\ \A r \in Requests :
       /\ WF_vars(\E o \in NetOutcomes : NetReturn(r, o) /\ UNCHANGED restOfHttp)
       /\ WF_vars(\E o \in PomOutcomes : PomReturn(r, o) /\ UNCHANGED restOfHttp)
       /\ WF_vars(BackoffDone(r) /\ UNCHANGED restOfHttp)
       /\ SF_vars(Acquire(r) /\ UNCHANGED restOfHttp)

\* ------------------------------------------------- SpecClient

\* The arguments MavenCentralHttpClient is constructed with.
BaseUrlArgs == {NoUrl, Url(<<>>), Url(HTTPS_URL), Url(UPPER_HTTPS_URL), Url(HTTP_URL)}
TimeoutArgs == {NoArg, Arg(-1), Arg(0), Arg(1)}
RetryArgs == {NoArg} \cup {Arg(n) : n \in -1..MaxRetryArg}
ConcurrencyArgs == {NoArg, Arg(-1), Arg(0), Arg(1)}

\* central_api.py:105-132 MavenCentralHttpClient(base_url=..., ...)
Construct(base_url, timeout_seconds, max_retries_arg, concurrency) ==
  /\ client.state = "none"
  /\ LET c == construct(base_url, timeout_seconds, max_retries_arg, concurrency) IN
       /\ client' = [state |-> c.state, timeout_seconds |-> c.timeout_seconds,
                     max_retries |-> c.max_retries]
       /\ sem' = c.permits
  /\ ctorArgs' = [base_url |-> base_url, timeout_seconds |-> timeout_seconds,
                  max_retries |-> max_retries_arg, concurrency |-> concurrency]
  /\ UNCHANGED <<hpc, attempt, holds, netCalls, sleeps, hres, hist>>

InitClientSpec ==
  /\ InitDedup /\ InitCallers /\ InitCache /\ InitTtl /\ InitRequests /\ InitVer /\ InitNs
  /\ sem = 0
  /\ client = NoClient
  /\ ctorArgs = NoCtorArgs

restOfClient == <<dedupVars, callerVars, cacheVars, ttlVars, verVars, nsVars>>

\* One get_json call is followed through its retry loop.
SingleCall == {r \in Requests : r = 1}

KConstruct ==
  \E b \in BaseUrlArgs, t \in TimeoutArgs, m \in RetryArgs, c \in ConcurrencyArgs :
    Construct(b, t, m, c) /\ UNCHANGED restOfClient
KGetJson ==
  \E r \in SingleCall, url \in Urls :
    /\ GetJson(r, url)
    /\ hist' = [hist EXCEPT ![r].url = url]
    /\ UNCHANGED <<client, ctorArgs, restOfClient>>
KAcquire ==
  \E r \in SingleCall : Acquire(r) /\ UNCHANGED <<clientVars, restOfClient>>
KNetReturn ==
  \E r \in SingleCall, o \in NetOutcomes :
    /\ NetReturn(r, o)
    /\ hist' = [hist EXCEPT ![r].outcomes = Append(@, o)]
    /\ UNCHANGED <<client, ctorArgs, restOfClient>>
KBackoffDone ==
  \E r \in SingleCall : BackoffDone(r) /\ UNCHANGED <<clientVars, restOfClient>>
KCancel ==
  \E r \in SingleCall : CancelRequest(r) /\ UNCHANGED <<clientVars, restOfClient>>

NextClient == KConstruct \/ KGetJson \/ KAcquire \/ KNetReturn \/ KBackoffDone \/ KCancel

SpecClient == InitClientSpec /\ [][NextClient]_vars

\* ------------------------------------------------- SpecCache

\* The keys used with the cache: one more than the largest capacity, so that
\* a full cache of any capacity can be set a further key.
CacheKeys == 1..(MaxCapacity + 1)
\* The values stored: two responses per key.
Versions == {1, 2}
\* The ttl_seconds argument of set: None (the default TTL, two clock steps),
\* negative, and zero.
TtlArgs == {NoArg, Arg(-1), Arg(0)}
\* The arguments of the constructor.
DefaultTtlArgs == {-1, CACHE_TTL_SECONDS}
MaxEntriesArgs == 0..MaxCapacity

NoCache == [state |-> "none", default_ttl_seconds |-> 0, max_entries |-> 0]

\* cache.py:49-52
CtorRejects(default_ttl_seconds, max_entries) ==
  default_ttl_seconds < 0 \/ max_entries < 1

\* cache.py:42-61 AsyncTTLCache(default_ttl_seconds=, max_entries=)
CacheConstruct(default_ttl_seconds, max_entries) ==
  /\ cacheCtor.state = "none"
  /\ IF CtorRejects(default_ttl_seconds, max_entries)
       THEN /\ cacheCtor' = [state |-> "rejected",
                             default_ttl_seconds |-> default_ttl_seconds,
                             max_entries |-> max_entries]
            /\ UNCHANGED self_max_entries
       ELSE /\ cacheCtor' = [state |-> "built",
                             default_ttl_seconds |-> default_ttl_seconds,
                             max_entries |-> max_entries]
            /\ self_max_entries' = max_entries
  /\ UNCHANGED <<cache, now, upstream, lastSet, lastOp, cacheLock, setRank>>

\* `async with self._lock` (cache.py:64, 79, 91, 95): the lock is taken when
\* free; no body suspends, so it is released in the step that took it.
LockAtExitHeld == "held"
LockAtExit == "free"

\* Ranks 1..n of the stored keys by the time of their most recent set.
Rerank(rank, stored) ==
  [k \in DOMAIN rank |->
     IF k \in stored /\ rank[k] > 0
       THEN Cardinality({j \in stored : rank[j] > 0 /\ rank[j] <= rank[k]})
       ELSE 0]
\* Position of key in the order (0 when it is not there).
PosIn(order, key) ==
  IF key \in Range(order) THEN CHOOSE i \in 1..Len(order) : order[i] = key ELSE 0

\* cache.py:77  `if ttl_seconds is not None and ttl_seconds < 0`
TtlNeverRejected(ttl_seconds) == FALSE
TtlRejected(ttl_seconds) == ttl_seconds.given /\ ttl_seconds.v < 0

\* cache.py:94-97
clear_entries_only(C) == [data |-> <<>>, order |-> C.order]
clear(C) == [data |-> <<>>, order |-> <<>>]

\* cache.py:76-88 set(key, value, ttl_seconds)
CacheSet(k, v, ttl_seconds) ==
  /\ cacheCtor.state = "built"
  /\ IF TtlRejected(ttl_seconds)
       THEN \* lines 77-78: ValueError before the lock is taken
            /\ UNCHANGED <<cache, lastSet, setRank, cacheLock>>
            /\ lastOp' = [NoOp EXCEPT !.op = "set_rejected", !.key = k]
       ELSE LET ttl == if_not_none(ttl_seconds, cacheCtor.default_ttl_seconds)
                P == purge_expired_unlocked(cache, now)
                C == set(cache, k, v, ttl, now, self_max_entries)
                evicted == (DOMAIN P.data \cup {k}) \ DOMAIN C.data
                newest == [setRank EXCEPT ![k] = Cardinality(DOMAIN setRank) + 1]
            IN /\ cacheLock = "free"
               /\ cacheLock' = LockAtExit
               /\ cache' = C
               /\ lastSet' = [j \in DOMAIN lastSet |->
                                IF j \in evicted THEN NoSet
                                ELSE IF j = k
                                  THEN [value |-> v, expires |-> now + ttl, valid |-> TRUE]
                                  ELSE lastSet[j]]
               /\ setRank' = Rerank(newest, DOMAIN C.data)
               /\ lastOp' = [NoOp EXCEPT !.op = "set", !.key = k,
                                          !.evicted = (evicted # {}),
                                          !.pos = PosIn(P.order, k)]
  /\ UNCHANGED <<now, upstream, self_max_entries, cacheCtor>>

\* cache.py:63-74
CacheGet(k) ==
  /\ cacheCtor.state = "built"
  /\ cacheLock = "free"
  /\ cacheLock' = LockAtExit
  /\ LET g == get(cache, k, now) IN
       /\ cache' = g.cache
       /\ setRank' = Rerank(setRank, DOMAIN g.cache.data)
       /\ lastOp' = [NoOp EXCEPT !.op = "get", !.key = k, !.value = g.value,
                                  !.pos = PosIn(cache.order, k)]
  /\ UNCHANGED <<now, upstream, self_max_entries, lastSet, cacheCtor>>

\* cache.py:90-92
CacheDelete(k) ==
  /\ cacheCtor.state = "built"
  /\ cacheLock = "free"
  /\ cacheLock' = LockAtExit
  /\ cache' = delete_unlocked(cache, k)
  /\ lastSet' = [lastSet EXCEPT ![k] = NoSet]
  /\ setRank' = Rerank(setRank, DOMAIN cache.data \ {k})
  /\ lastOp' = [NoOp EXCEPT !.op = "delete", !.key = k, !.pos = PosIn(cache.order, k)]
  /\ UNCHANGED <<now, upstream, self_max_entries, cacheCtor>>

\* cache.py:94-97
CacheClear ==
  /\ cacheCtor.state = "built"
  /\ cacheLock = "free"
  /\ cacheLock' = LockAtExit
  /\ cache' = clear(cache)
  /\ lastSet' = [k \in DOMAIN lastSet |-> NoSet]
  /\ setRank' = [k \in DOMAIN setRank |-> 0]
  /\ lastOp' = [NoOp EXCEPT !.op = "clear", !.pos = Len(cache.order)]
  /\ UNCHANGED <<now, upstream, self_max_entries, cacheCtor>>

\* No cache has been constructed yet.
InitCacheSpec ==
  /\ InitDedup /\ InitCallers /\ InitCache /\ InitHttp /\ InitVer /\ InitNs
  /\ self_max_entries = 0
  /\ lastSet = [k \in CacheKeys |-> NoSet]
  /\ lastOp = NoOp
  /\ cacheLock = "free"
  /\ cacheCtor = NoCache
  /\ setRank = [k \in CacheKeys |-> 0]

restOfCache == <<dedupVars, callerVars, httpVars, clientVars, verVars, nsVars>>

TConstruct ==
  \E t \in DefaultTtlArgs, m \in MaxEntriesArgs :
    CacheConstruct(t, m) /\ UNCHANGED restOfCache
TSet ==
  \E k \in CacheKeys, n \in Versions, ttl \in TtlArgs :
    CacheSet(k, Response(k, n), ttl) /\ UNCHANGED restOfCache
TGet == \E k \in CacheKeys : CacheGet(k) /\ UNCHANGED restOfCache
TDelete == \E k \in CacheKeys : CacheDelete(k) /\ UNCHANGED restOfCache
TClear == CacheClear /\ UNCHANGED restOfCache
TTick ==
  /\ cacheCtor.state = "built"
  /\ Tick
  /\ lastOp' = NoOp
  /\ UNCHANGED <<self_max_entries, lastSet, cacheLock, cacheCtor, setRank, restOfCache>>

NextCache == TConstruct \/ TSet \/ TGet \/ TDelete \/ TClear \/ TTick

SpecCache == InitCacheSpec /\ [][NextCache]_vars

\* ------------------------------------------------- versioning.py

\* A version string is modelled by its parts, the runs of characters between
\* the separators '.', '-' and '_' (_SEP_PATTERN, versioning.py:112), each
\* part by its tokens: the maximal runs of digits (a number) and of letters
\* (a word, a sequence of characters), as _TOKEN_PATTERN (line 113) finds
\* them.
Num(n) == [num |-> TRUE, n |-> n, w |-> <<>>]
Word(w) == [num |-> FALSE, n |-> 0, w |-> w]

\* The version strings used: "1", "1.0", "1.GA", "1.a", "1-rc1", "1.0rc1",
\* "v2" and "2.0-SNAPSHOT".
V_1 == << <<Num(1)>> >>
V_1_0 == << <<Num(1)>>, <<Num(0)>> >>
V_1_GA == << <<Num(1)>>, <<Word(<<"G", "A">>)>> >>
V_1_a == << <<Num(1)>>, <<Word(<<"a">>)>> >>
V_1_rc1 == << <<Num(1)>>, <<Word(<<"r", "c">>), Num(1)>> >>
V_1_0rc1 == << <<Num(1)>>, <<Num(0), Word(<<"r", "c">>), Num(1)>> >>
V_v2 == << <<Word(<<"v">>), Num(2)>> >>
V_2_0_SNAPSHOT ==
  << <<Num(2)>>, <<Num(0)>>, <<Word(<<"S", "N", "A", "P", "S", "H", "O", "T">>)>> >>
VersionStrings == {V_1, V_1_0, V_1_GA, V_1_a, V_1_rc1, V_1_0rc1, V_v2, V_2_0_SNAPSHOT}

\* Words as Python strings.
W_snapshot == <<"s", "n", "a", "p", "s", "h", "o", "t">>
W_final == <<"f", "i", "n", "a", "l">>
W_release == <<"r", "e", "l", "e", "a", "s", "e">>
W_milestone == <<"m", "i", "l", "e", "s", "t", "o", "n", "e">>
W_preview == <<"p", "r", "e", "v", "i", "e", "w">>
W_alpha == <<"a", "l", "p", "h", "a">>
W_beta == <<"b", "e", "t", "a">>

\* sub occurs in str as a run of consecutive characters (re.search of a
\* literal).
Contains(str, sub) ==
  \E i \in 1..(Len(str) - Len(sub) + 1) : SubSeq(str, i, i + Len(sub) - 1) = sub

\* versioning.py:32-39 _PRERELEASE_QUALIFIERS: the words of the alternation
PrereleaseQualifierWords ==
  {W_alpha, W_beta, <<"r", "c">>, <<"c", "r">>, W_milestone, W_preview, <<"e", "a">>}

\* versioning.py:65-88 is_prerelease.  A match of _PRERELEASE_QUALIFIERS or of
\* _MILESTONE_M starts at the start of a part and ends at its end, so it is a
\* whole part: a qualifier word with or without a number after it, or the
\* word "m" with a number after it.  _SNAPSHOT matches inside any word.
is_prerelease(s) ==
  \/ \E i \in 1..Len(s) : \E j \in 1..Len(s[i]) :
       ~s[i][j].num /\ Contains(lower(s[i][j].w), W_snapshot)
  \/ \E i \in 1..Len(s) :
       /\ Len(s[i]) \in {1, 2}
       /\ ~s[i][1].num /\ lower(s[i][1].w) \in PrereleaseQualifierWords
       /\ Len(s[i]) = 2 => s[i][2].num
  \/ \E i \in 1..Len(s) :
       /\ Len(s[i]) = 2
       /\ ~s[i][1].num /\ lower(s[i][1].w) = <<"m">>
       /\ s[i][2].num

\* versioning.py:91-105
is_stable(s) == ~is_prerelease(s)

\* versioning.py:116-122 _CANON_MAP
canon(w) ==
  CASE w = W_release -> W_final
    [] w = <<"g", "a">> -> W_final
    [] w = <<"c", "r">> -> <<"r", "c">>
    [] OTHER -> w

\* versioning.py:124-127
STABLE_SYNONYMS == {W_final, W_release, <<"g", "a">>}
PRERELEASE_QUALS ==
  {W_snapshot, W_alpha, W_beta, <<"r", "c">>, <<"c", "r">>, W_milestone, <<"m">>,
   W_preview, <<"e", "a">>}

\* versioning.py:130-135 _normalize_version_prefix: a leading "v" or "V" that
\* a digit follows is dropped.
normalize_version_prefix(s) ==
  IF /\ Len(s) > 0 /\ Len(s[1]) >= 2
     /\ ~s[1][1].num /\ lower(s[1][1].w) = <<"v">>
     /\ s[1][2].num
    THEN [s EXCEPT ![1] = Tail(s[1])]
    ELSE s

\* The tokens of all the parts, in order.
RECURSIVE Flatten(_)
Flatten(parts) == IF parts = <<>> THEN <<>> ELSE Head(parts) \o Flatten(Tail(parts))

\* versioning.py:138-159 _tokenize: numbers as they are, words lower-cased
\* and canonicalized.
tokenize(version) ==
  LET toks == Flatten(normalize_version_prefix(version)) IN
    [i \in 1..Len(toks) |->
       IF toks[i].num THEN toks[i] ELSE Word(canon(lower(toks[i].w)))]

\* ord() of a lower-case letter, relative to "a".
Alphabet ==
  <<"a", "b", "c", "d", "e", "f", "g", "h", "i", "j", "k", "l", "m",
    "n", "o", "p", "q", "r", "s", "t", "u", "v", "w", "x", "y", "z">>
Ord(ch) == CHOOSE i \in 1..Len(Alphabet) : Alphabet[i] = ch

\* Python's `<` on two strings: the first differing character decides, and a
\* proper prefix is smaller.
RECURSIVE StrLess(_, _)
StrLess(x, y) ==
  IF y = <<>> THEN FALSE
  ELSE IF x = <<>> THEN TRUE
  ELSE IF Head(x) # Head(y) THEN Ord(Head(x)) < Ord(Head(y))
  ELSE StrLess(Tail(x), Tail(y))

\* versioning.py:162-190 _tail_significance(tokens, start), with start
\* counted from 1.
RECURSIVE tail_significance(_, _)
tail_significance(tokens, start) ==
  IF start > Len(tokens) THEN "none"
  ELSE LET t == tokens[start] IN
    IF t.num
      THEN IF t.n = 0 THEN tail_significance(tokens, start + 1) ELSE "meaningful"
      ELSE LET tl == canon(lower(t.w)) IN
        IF tl \in STABLE_SYNONYMS THEN tail_significance(tokens, start + 1)
        ELSE IF tl \in PRERELEASE_QUALS THEN "prerelease"
        ELSE "meaningful"

\* versioning.py:215-260: the loop over the common tokens from index i on,
\* then the tails.
RECURSIVE compare_from(_, _, _)
compare_from(ta, tb, i) ==
  IF i <= Len(ta) /\ i <= Len(tb)
    THEN LET xa == ta[i]
             xb == tb[i]
         IN IF xa.num /\ xb.num
              THEN IF xa.n < xb.n THEN -1
                   ELSE IF xa.n > xb.n THEN 1
                   ELSE compare_from(ta, tb, i + 1)
            ELSE IF ~xa.num /\ ~xb.num
              THEN IF StrLess(canon(xa.w), canon(xb.w)) THEN -1
                   ELSE IF StrLess(canon(xb.w), canon(xa.w)) THEN 1
                   ELSE compare_from(ta, tb, i + 1)
            ELSE IF xa.num THEN 1 ELSE -1
  ELSE IF Len(ta) = Len(tb) THEN 0
  ELSE IF i <= Len(ta)
    THEN LET tail_a == tail_significance(ta, i) IN
           IF tail_a = "none" THEN 0
           ELSE IF tail_a = "prerelease" THEN -1
           ELSE 1
    ELSE LET tail_b == tail_significance(tb, i) IN
           IF tail_b = "none" THEN 0
           ELSE IF tail_b = "prerelease" THEN 1
           ELSE -1

\* versioning.py:193-260 compare_versions(a, b)
compare_versions(a, b) == compare_from(tokenize(a), tokenize(b), 1)

\* functools.cmp_to_key: `x < y` on the keys is compare_versions(x, y) < 0.
KeyLess(x, y) == compare_versions(x, y) < 0

\* sorted() on a short list (listobject.c, count_run and binarysort): the
\* leading run, ascending (no element smaller than the one before it) or
\* strictly descending (then reversed), is taken as sorted ...
RECURSIVE RunEnd(_, _, _)
RunEnd(xs, i, descending) ==
  IF i < Len(xs) /\ (KeyLess(xs[i + 1], xs[i]) <=> descending)
    THEN RunEnd(xs, i + 1, descending)
    ELSE i
Reverse(xs) == [i \in 1..Len(xs) |-> xs[Len(xs) + 1 - i]]
\* ... and every further element is inserted at the place a binary search
\* finds among the elements before it.
RECURSIVE BinarySearch(_, _, _, _)
BinarySearch(xs, pivot, l, r) ==
  IF l < r
    THEN LET p == l + ((r - l) \div 2) IN
           IF KeyLess(pivot, xs[p + 1])
             THEN BinarySearch(xs, pivot, l, p)
             ELSE BinarySearch(xs, pivot, p + 1, r)
    ELSE l
RECURSIVE BinarySort(_, _)
BinarySort(xs, k) ==
  IF k > Len(xs) THEN xs
  ELSE LET l == BinarySearch(xs, xs[k], 0, k - 1)
           moved == SubSeq(xs, 1, l) \o <<xs[k]>> \o SubSeq(xs, l + 1, k - 1)
                      \o SubSeq(xs, k + 1, Len(xs))
       IN BinarySort(moved, k + 1)

\* versioning.py:263-273 sort_versions
sort_versions(versions) ==
  IF Len(versions) < 2 THEN versions
  ELSE LET descending == KeyLess(versions[2], versions[1])
           n == RunEnd(versions, 2, descending)
           run == IF descending
                    THEN Reverse(SubSeq(versions, 1, n)) \o SubSeq(versions, n + 1, Len(versions))
                    ELSE versions
       IN BinarySort(run, n + 1)

\* server.py:70-73 _filter_versions
filter_versions_keeps_all(versions, include_prereleases) == versions
filter_versions(versions, include_prereleases) ==
  IF include_prereleases THEN versions
  ELSE SelectSeq(versions, is_stable)

\* server.py:108-112 _select_latest
select_latest(versions) ==
  IF versions = <<>> THEN NoVersion
  ELSE LET ordered == sort_versions(versions) IN ordered[Len(ordered)]

\* server.py:134 and 194  `rows = max(1, min(int(max_versions), 500))`
ROWS_LIMIT == 500
clamp_rows(max_versions) ==
  LET m == IF max_versions < ROWS_LIMIT THEN max_versions ELSE ROWS_LIMIT IN
    IF m > 1 THEN m ELSE 1

\* ------------------------------------------------- SpecVersions

\* Largest number of versions in the reply of _fetch_versions.
MaxFetched == 3
\* The max_versions / max_versions_to_scan arguments.
MaxVersionsArgs == {0, 2}

RECURSIVE SeqsUpTo(_, _)
SeqsUpTo(S, n) ==
  IF n = 0 THEN {<<>>}
  ELSE LET shorter == SeqsUpTo(S, n - 1) IN
         shorter \cup {Append(q, x) : q \in shorter, x \in S}

ValueError(why) == [NoVOut EXCEPT !.kind = why]

\* server.py:144-167 _compute of get_latest_version_core, given what
\* _fetch_versions returned.
compute_latest(all_versions, include_prereleases) ==
  IF all_versions = <<>> THEN ValueError("no_versions")
  ELSE LET filtered == filter_versions(all_versions, include_prereleases) IN
    IF filtered = <<>> THEN ValueError("all_prereleases")
    ELSE [NoVOut EXCEPT !.kind = "value", !.latest = select_latest(filtered)]

\* server.py:203-227 _compute of get_versions_core.
compute_versions(all_versions, include_prereleases, rows) ==
  IF all_versions = <<>> THEN ValueError("no_versions")
  ELSE LET filtered == filter_versions(all_versions, include_prereleases) IN
    IF filtered = <<>> THEN ValueError("all_prereleases")
    ELSE LET ordered_high_to_low == Reverse(sort_versions(filtered))
             n == IF Len(ordered_high_to_low) < rows THEN Len(ordered_high_to_low) ELSE rows
         IN [NoVOut EXCEPT !.kind = "value", !.versions = SubSeq(ordered_high_to_low, 1, n)]

InitVersionsSpec ==
  /\ InitDedup /\ InitCallers /\ InitCache /\ InitHttp /\ InitTtl /\ InitNs
  /\ vArgs \in [all_versions : SeqsUpTo(VersionStrings, MaxFetched),
                include_prereleases : BOOLEAN,
                max_versions : MaxVersionsArgs]
  /\ vOut = NoVOut

restOfVersions == <<dedupVars, callerVars, cacheVars, httpVars, clientVars, ttlVars, nsVars>>

VLatest ==
  /\ vOut' = [compute_latest(vArgs.all_versions, vArgs.include_prereleases)
                EXCEPT !.op = "latest"]
  /\ UNCHANGED <<vArgs, restOfVersions>>
VVersions ==
  /\ vOut' = [compute_versions(vArgs.all_versions, vArgs.include_prereleases,
                               clamp_rows(vArgs.max_versions))
                EXCEPT !.op = "versions"]
  /\ UNCHANGED <<vArgs, restOfVersions>>
VCompare ==
  /\ vOut' = [NoVOut EXCEPT !.op = "compare",
                 !.cmp = [i \in 1..Len(vArgs.all_versions) |->
                           [j \in 1..Len(vArgs.all_versions) |->
                              compare_versions(vArgs.all_versions[i], vArgs.all_versions[j])]]]
  /\ UNCHANGED <<vArgs, restOfVersions>>
VSort ==
  /\ vOut' = [NoVOut EXCEPT !.op = "sort", !.versions = sort_versions(vArgs.all_versions)]
  /\ UNCHANGED <<vArgs, restOfVersions>>

NextVersions == VLatest \/ VVersions \/ VCompare \/ VSort

SpecVersions == InitVersionsSpec /\ [][NextVersions]_vars

\* ------------------------------------------------- SpecQueries: the three
\* query types, each with its cache and its deduper

QueryTypes == {"get_latest_version", "get_versions", "get_declared_dependencies"}

\* server.py:140 and 169 (_versions_cache, _deduper), 198 and 229
\* (_versions_list_cache, _versions_list_deduper), 278 and 335
\* (_declared_deps_cache, _declared_deps_deduper).
pair_shared(type) == "_versions"
pair(type) ==
  CASE type = "get_latest_version" -> "_versions"
    [] type = "get_versions" -> "_versions_list"
    [] type = "get_declared_dependencies" -> "_declared_deps"

\* models.py:31-38: MavenCoordinate stores group_id and artifact_id stripped.
\* A string is a sequence of characters here.
RECURSIVE LStrip(_)
LStrip(s) == IF s # <<>> /\ Head(s) = " " THEN LStrip(Tail(s)) ELSE s
RECURSIVE RStrip(_)
RStrip(s) ==
  IF s # <<>> /\ s[Len(s)] = " " THEN RStrip(SubSeq(s, 1, Len(s) - 1)) ELSE s
Strip(s) == LStrip(RStrip(s))

\* server.py:235-244 _normalize_scopes: None and the empty list give the empty
\* tuple.
normalize_scopes(scopes) == <<>>

\* server.py:137-138, 196-197 and 273-275: the cache key of a query.
cache_key(type, args) ==
  IF type = "get_declared_dependencies"
    THEN <<Strip(args.group_id), Strip(args.artifact_id), args.version,
           args.include_optional, normalize_scopes(args.include_scopes)>>
    ELSE <<Strip(args.group_id), Strip(args.artifact_id), args.include_prereleases,
           clamp_rows(args.max_versions)>>

\* The arguments the queries are made with: a base query and every query
\* that differs from it in one argument: the group spelled with a trailing
\* blank, another group, the other flag, a row limit above the clamp as the
\* base has, and one below.
GroupArgs == {<<"g">>, <<"g", " ">>, <<"h">>}
ArtifactArgs == {<<"a">>}
RowArgs == {2, ROWS_LIMIT, ROWS_LIMIT + 100}
BaseVersionsArgs ==
  [group_id |-> <<"g">>, artifact_id |-> <<"a">>, include_prereleases |-> FALSE,
   max_versions |-> ROWS_LIMIT]
BaseDeclaredArgs ==
  [group_id |-> <<"g">>, artifact_id |-> <<"a">>, version |-> <<"1">>,
   include_optional |-> TRUE, include_scopes |-> <<>>]
Differing(a, b) == {f \in DOMAIN a : a[f] # b[f]}
VersionsArgs ==
  {a \in [group_id : GroupArgs, artifact_id : ArtifactArgs,
          include_prereleases : BOOLEAN, max_versions : RowArgs] :
     Cardinality(Differing(a, BaseVersionsArgs)) <= 1}
DeclaredArgs ==
  {a \in [group_id : GroupArgs, artifact_id : ArtifactArgs, version : {<<"1">>},
          include_optional : BOOLEAN, include_scopes : {<<>>}] :
     Cardinality(Differing(a, BaseDeclaredArgs)) <= 1}
ArgsOf(type) == IF type = "get_declared_dependencies" THEN DeclaredArgs ELSE VersionsArgs

\* The response or the error a computation ends in, with the query type and
\* the key of the call whose _compute closure produced it.
Resp(kind, type, key) == [kind |-> kind, type |-> type, key |-> key]

\* cache.py:63-74 get on the pair's cache: the entry stored under the key.
Cached(p, key) == {e \in nsCache[p] : e.key = key}
\* cache.py:158-159: the task registered under the key, if it is not done.
Running(p, key) == {e \in nsInflight[p] : e.key = key /\ nsTasks[e.task].state = "running"}

\* server.py:115-169, 172-229, 257-335 up to the await of deduper.run: the
\* cache is read; on a miss the deduper joins the running task of the key or
\* registers a new one (cache.py:157-174).
NsQuery(c, type, args) ==
  /\ nsCall[c].pc = "idle"
  /\ LET p == pair(type)
         key == cache_key(type, args)
         call == [NoCall EXCEPT !.type = type, !.args = args]
     IN IF Cached(p, key) # {}
          THEN /\ nsCall' = [nsCall EXCEPT ![c] =
                    [call EXCEPT !.pc = "done",
                                 !.result = (CHOOSE e \in Cached(p, key) : TRUE).resp]]
               /\ UNCHANGED <<nsInflight, nsTasks>>
          ELSE IF Running(p, key) # {}
            THEN /\ nsCall' = [nsCall EXCEPT ![c] =
                      [call EXCEPT !.pc = "waiting",
                                   !.awaits = (CHOOSE e \in Running(p, key) : TRUE).task]]
                 /\ UNCHANGED <<nsInflight, nsTasks>>
            ELSE /\ nsTasks' = Append(nsTasks, [type |-> type, key |-> key, state |-> "running"])
                 /\ nsInflight' = [nsInflight EXCEPT ![p] =
                      {e \in @ : e.key # key} \cup {[key |-> key, task |-> Len(nsTasks) + 1]}]
                 /\ nsCall' = [nsCall EXCEPT ![c] =
                      [call EXCEPT !.pc = "waiting", !.awaits = Len(nsTasks) + 1]]
  /\ UNCHANGED nsCache

\* _compute ends: on success it has stored its response under its cache_key in
\* the cache of its query type (server.py:166, 226, 332), on failure it stores
\* nothing.
NsFinish(t, ok) ==
  /\ t \in 1..Len(nsTasks)
  /\ nsTasks[t].state = "running"
  /\ nsTasks' = [nsTasks EXCEPT ![t].state = IF ok THEN "ok" ELSE "failed"]
  /\ LET p == pair(nsTasks[t].type)
         key == nsTasks[t].key
     IN nsCache' =
          IF ok
            THEN [nsCache EXCEPT ![p] = {e \in @ : e.key # key}
                     \cup {[key |-> key, resp |-> Resp("value", nsTasks[t].type, key)]}]
            ELSE nsCache
  /\ UNCHANGED <<nsInflight, nsCall>>

\* cache.py:167-171 _cleanup: the entry is popped if it is still this task.
NsCleanup(t) ==
  /\ t \in 1..Len(nsTasks)
  /\ nsTasks[t].state # "running"
  /\ \E p \in Pairs : \E e \in nsInflight[p] : e.task = t
  /\ nsInflight' = [p \in Pairs |-> {e \in nsInflight[p] : e.task # t}]
  /\ UNCHANGED <<nsCache, nsTasks, nsCall>>

\* cache.py:178 `return await asyncio.shield(task)`: the awaited task's result
\* or exception.
NsReceive(c) ==
  /\ nsCall[c].pc = "waiting"
  /\ LET t == nsTasks[nsCall[c].awaits] IN
       /\ t.state # "running"
       /\ nsCall' = [nsCall EXCEPT ![c].pc = "done",
                       ![c].result = Resp(IF t.state = "ok" THEN "value" ELSE "error",
                                          t.type, t.key)]
  /\ UNCHANGED <<nsCache, nsInflight, nsTasks>>

InitQueries ==
  /\ InitDedup /\ InitCallers /\ InitCache /\ InitHttp /\ InitTtl /\ InitVer /\ InitNs

restOfQueries ==
  <<dedupVars, callerVars, cacheVars, httpVars, clientVars, ttlVars, verVars>>

\* The callers make their queries in the order of their numbers, the first
\* one a base query of some type.
NextCaller(c) == \A d \in Callers : d < c => nsCall[d].pc # "idle"
QueryArgs(c, type) ==
  IF c = 1 THEN ArgsOf(type) \cap {BaseVersionsArgs, BaseDeclaredArgs} ELSE ArgsOf(type)

QQuery ==
  \E c \in Callers, type \in QueryTypes :
    \E args \in QueryArgs(c, type) :
      NextCaller(c) /\ NsQuery(c, type, args) /\ UNCHANGED restOfQueries
QFinish ==
  \E t \in 1..NumCallers, ok \in BOOLEAN : NsFinish(t, ok) /\ UNCHANGED restOfQueries
QCleanup == \E t \in 1..NumCallers : NsCleanup(t) /\ UNCHANGED restOfQueries
QReceive == \E c \in Callers : NsReceive(c) /\ UNCHANGED restOfQueries

NextQueries == QQuery \/ QFinish \/ QCleanup \/ QReceive

SpecQueries == InitQueries /\ [][NextQueries]_vars

\* ------------------------------------------------- properties of SpecSF

Unfinished(t) == tState[t] \in {"created", "running"}
Received(c) == pc[c] \in {"returned", "raised"}
\* The caller that created task t: the first caller that was handed it.
Creator(t) == CHOOSE c \in Callers : joined[c] = t /\ \A d \in Callers : joined[d] = t => c <= d

\* C1: for every key at most one computation started for it is unfinished
\* (run never starts a second producer while one is still running), and the
\* registry's single entry for the key is that computation.
C1_AtMostOneOutstanding ==
  \A k \in Keys :
    /\ Cardinality({t \in Tasks : tKey[t] = k /\ Unfinished(t)}) <= 1
    /\ \A t \in Tasks : tKey[t] = k /\ Unfinished(t) => inflight[k] = t
    /\ inflight[k] # NoTask => tKey[inflight[k]] = k

\* Two callers joined one running computation of a key whose earlier
\* computation had already finished.
C1_Witness ==
  \E c1, c2 \in Callers, t1, t2 \in Tasks :
    /\ c1 # c2 /\ t1 # t2
    /\ tKey[t1] = tKey[t2] /\ Done(t1) /\ tState[t2] = "running"
    /\ joined[c1] = t2 /\ joined[c2] = t2
    /\ pc[c1] = "awaiting" /\ pc[c2] = "awaiting"

\* C2: run calls for one key issued while no further computation of that key
\* has finished (in particular all issued before the first one finishes) share
\* one computation, the producer is invoked once for them, and all of them
\* that are not cancelled receive the identical outcome.
C2_ConcurrentCallsCollapse ==
  /\ \A c1, c2 \in Callers :
       (cKey[c1] # 0 /\ cKey[c1] = cKey[c2] /\ epoch[c1] = epoch[c2]) =>
         /\ joined[c1] = joined[c2]
         /\ (Received(c1) /\ Received(c2)) =>
              (result[c1] = result[c2] /\ result[c1].kind \in {"value", "error"})
  /\ \A k \in Keys :
       LET mine == {c \in Callers : cKey[c] = k} IN
       /\ calls[k] <= Cardinality({epoch[c] : c \in mine})
       /\ (\A c \in mine : epoch[c] = 0) => calls[k] <= 1
       /\ (\E c \in mine : Received(c)) => calls[k] >= 1

\* All callers chose one key, called before anything finished, and all
\* returned the same value from a single producer invocation.
C2_Witness ==
  \E k \in Keys :
    /\ \A c \in Callers : cKey[c] = k /\ epoch[c] = 0 /\ pc[c] = "returned"
    /\ \A c, d \in Callers : result[c] = result[d]
    /\ calls[k] = 1

\* C4: cancelling a waiter leaves the shared computation alone: no
\* computation ever ends cancelled, and every other waiter that has received
\* something received exactly what the producer produced.
C4_CancelDoesNotReachComputation ==
  /\ \A t \in Tasks :
       /\ tOutcome[t] # "cancelled"
       /\ Done(t) => tOutcome[t] \in {"value", "error"}
  /\ \A c \in Callers :
       Received(c) =>
         /\ result[c] = [kind |-> tOutcome[joined[c]], by |-> joined[c]]
         /\ tOutcome[joined[c]] = "value" => pc[c] = "returned"
  /\ \A c \in Callers : pc[c] = "cancelled" => result[c].kind = "CancelledError"

\* One waiter was cancelled while the computation was unfinished; the
\* computation then completed normally and another waiter got its value.
C4_Witness ==
  \E c1, c2 \in Callers :
    /\ c1 # c2 /\ joined[c1] = joined[c2]
    /\ pc[c1] = "cancelled" /\ cancelledEarly[c1]
    /\ pc[c2] = "returned" /\ result[c2].kind = "value"
    /\ tOutcome[joined[c2]] = "value"

\* C5: when the producer fails, every waiter of that computation that
\* receives anything receives that failure itself, the producer ran once per
\* computation, and no run is ever handed an already finished computation, so
\* a later run invokes its producer afresh.
C5_FailureSharedThenFresh ==
  /\ \A c \in Callers :
       /\ pc[c] = "raised" =>
            (result[c] = [kind |-> "error", by |-> joined[c]] /\ tOutcome[joined[c]] = "error")
       /\ (Received(c) /\ tOutcome[joined[c]] = "error") => pc[c] = "raised"
       /\ ~staleJoin[c]
       /\ (cKey[c] # 0 /\ epoch[c] > 0) =>
            Cardinality({t \in Tasks : tKey[t] = cKey[c]}) > 1
  /\ \A k \in Keys :
       calls[k] = Cardinality({t \in Tasks : tKey[t] = k /\ tState[t] \in {"running", "done"}})

\* Two waiters both received the failure of one computation; a later run for
\* the same key started a second computation whose producer was invoked.
C5_Witness ==
  \E c1, c2, c3 \in Callers :
    /\ c1 # c2 /\ joined[c1] = joined[c2]
    /\ pc[c1] = "raised" /\ pc[c2] = "raised" /\ result[c1] = result[c2]
    /\ cKey[c3] = cKey[c1] /\ joined[c3] # joined[c1]
    /\ tState[joined[c3]] \in {"running", "done"}
    /\ calls[cKey[c1]] = 2

\* C6: a computation's cleanup removes the key's entry only when the entry is
\* that computation: an unfinished computation is never unregistered by
\* another one's cleanup, and after its own cleanup a computation is no longer
\* the registered one.
C6_CleanupOnlyOwnEntry ==
  \A t \in Tasks :
    /\ Unfinished(t) => inflight[tKey[t]] = t
    /\ tCleaned[t] # "pending" => (tKey[t] # 0 /\ inflight[tKey[t]] # t)

\* T1 finished, T2 was installed before T1's cleanup ran, the cleanup left T2
\* registered, and a caller other than T2's creator joined T2 while it runs.
C6_Witness ==
  \E t1, t2 \in Tasks, c \in Callers :
    /\ t1 # t2 /\ tKey[t1] = tKey[t2]
    /\ tCleaned[t1] = "kept"
    /\ inflight[tKey[t2]] = t2 /\ tState[t2] = "running"
    /\ joined[c] = t2 /\ c # Creator(t2)
    /\ Cardinality({t \in Tasks : tKey[t] = tKey[t1]}) = 2

\* C7: whenever a caller is suspended awaiting a computation the
\* registration lock is free.
C7_LockFreeWhileAwaiting ==
  \A c \in Callers : pc[c] = "awaiting" => dedupLock = NoOne

\* A later run for another key registered, executed and returned while the
\* earlier caller's computation is still pending.
C7_Witness ==
  \E c1, c2 \in Callers :
    /\ c1 < c2 /\ cKey[c1] # cKey[c2]
    /\ pc[c1] = "awaiting" /\ Unfinished(joined[c1])
    /\ pc[c2] = "returned"


\* ------------------------------------------------- properties of SpecFacade

\* C3: callers that miss the cache for one key while no further computation
\* of it has finished share one computation, each computation makes one
\* upstream fetch, so as long as no fetch failed and no entry can have expired
\* a key is fetched at most once; and a query that finds a live entry is
\* served from the cache without joining or starting a computation.
C3_SharedUpstreamFetch ==
  /\ \A c1, c2 \in Callers :
       (cKey[c1] # 0 /\ cKey[c1] = cKey[c2] /\ epoch[c1] = epoch[c2]
          /\ joined[c1] # NoTask /\ joined[c2] # NoTask) => joined[c1] = joined[c2]
  /\ \A k \in Keys :
       /\ upstream[k] =
            Cardinality({t \in Tasks : tKey[t] = k /\ tState[t] \in {"running", "done"}})
       /\ ((\A t \in Tasks : tKey[t] = k => tOutcome[t] # "error") /\ now < CACHE_TTL_SECONDS)
            => upstream[k] <= 1
       /\ (\E c \in Callers : cKey[c] = k /\ pc[c] = "returned") => upstream[k] >= 1
  /\ \A c \in Callers :
       liveAtCall[c] =>
         /\ joined[c] = NoTask /\ pc[c] = "returned"
         /\ result[c].kind = "value" /\ tKey[result[c].by] = cKey[c]

\* Two callers missed and shared one computation, a third query found the
\* entry live and was served from the cache: one upstream fetch in all, and
\* the three got the same response.
C3_Witness ==
  \E k \in Keys, c1, c2, c3 \in Callers :
    /\ c1 # c2 /\ joined[c1] # NoTask /\ joined[c1] = joined[c2]
    /\ joined[c3] = NoTask /\ liveAtCall[c3]
    /\ \A c \in {c1, c2, c3} : cKey[c] = k /\ pc[c] = "returned" /\ result[c] = result[c1]
    /\ upstream[k] = 1
    /\ now > 0


\* ------------------------------------------------- properties of SpecHttp

\* Requests whose network call is in flight: get_json's (central_api.py:186)
\* and download_pom's (pom.py:56).
GetJsonInFlight == {r \in Requests : hpc[r] = "net"}
PomInFlight == {r \in Requests : hpc[r] = "pom_net"}

\* C8: the number of get_json network calls in flight never exceeds the
\* concurrency limit, retries included.
C8_GetJsonCallsBounded == Cardinality(GetJsonInFlight) <= Concurrency

\* The limit is reached with one of the calls in flight being a retry, while
\* a further get_json request waits for a permit.
C8_Witness ==
  /\ Cardinality(GetJsonInFlight) = Concurrency
  /\ \E r \in GetJsonInFlight : attempt[r] > 0
  /\ \E r \in Requests : hpc[r] = "acquire"
  /\ sem = 0

\* C9: network calls of get_json and of download_pom counted together never
\* exceed the concurrency limit.
C9_GlobalCeiling == Cardinality(GetJsonInFlight \cup PomInFlight) <= Concurrency

\* C10: a request holds a permit exactly while its network call is in
\* flight, never in a backoff sleep or while waiting, and the permits not
\* available are exactly the ones held.
C10_PermitOnlyAroundCall ==
  /\ \A r \in Requests : holds[r] <=> hpc[r] = "net"
  /\ \A r \in Requests : hpc[r] = "backoff" => ~holds[r]
  /\ sem >= 0
  /\ sem + Cardinality({r \in Requests : holds[r]}) = Concurrency

\* One request sleeps in backoff without a permit while other requests have
\* every permit in use for their network calls.
C10_Witness ==
  /\ \E r \in Requests : hpc[r] = "backoff" /\ ~holds[r] /\ netCalls[r] = 1
  /\ Cardinality(GetJsonInFlight) = Concurrency
  /\ sem = 0

\* Requests that have left get_json: returned, raised or cancelled.
Exited == {r \in Requests : hpc[r] \in {"returned", "raised", "cancelled"}}
\* The request was cancelled while its network call was in flight: it had
\* issued one more call than it had slept backoffs.
CancelledInCall(r) ==
  hpc[r] = "cancelled" /\ netCalls[r] > 0 /\ netCalls[r] = Len(sleeps[r]) + 1

\* C11: permits are conserved on every exit path, cancellation during the
\* network call included: a request that has left get_json holds no permit,
\* whenever no get_json network call is in flight every permit is available,
\* and whenever fewer calls are in flight than the limit a permit is
\* available to a waiting request.
C11_PermitsConserved ==
  /\ \A r \in Exited : ~holds[r]
  /\ GetJsonInFlight = {} => sem = Concurrency
  /\ Cardinality(GetJsonInFlight) < Concurrency => sem > 0

\* A request was cancelled while holding a permit, and afterwards every
\* permit is in use by the network calls of the other requests.
C11_Witness ==
  \E r \in Requests :
    /\ CancelledInCall(r)
    /\ sem = 0
    /\ Cardinality(GetJsonInFlight) = Concurrency


\* ------------------------------------------------- properties of SpecClient

\* What the claims call a transient failure (a connect timeout, a broken
\* read, a 429 or 5xx response), a success, and a terminal status.
TransientFailure(o) ==
  \/ o.exc \in {"ConnectTimeout", "ReadError"}
  \/ o.exc = NoExc /\ o.status \in {429, 500}
Success(o) == o.exc = NoExc /\ o.status = 200 /\ o.json_ok
TerminalStatus(o) ==
  o.exc = NoExc /\ o.status >= 400 /\ o.status <= 499 /\ o.status # 429
\* The first n network calls of request r all ended in transient failures.
AllTransient(r, n) == \A i \in 1..n : TransientFailure(hist[r].outcomes[i])
\* Number of network calls of request r that have ended
Ended(r) == Len(hist[r].outcomes)

\* C12: when the first k network calls of a get_json call end in transient
\* failures with k <= max_retries, the call sleeps one backoff after each of
\* them and goes on to call k+1; when that call succeeds get_json returns the
\* parsed body after exactly k+1 network calls and exactly k sleeps.
C12_RetriesThenSuccess ==
  \A r \in Requests :
    LET n == Ended(r) IN
    /\ (n >= 1 /\ n <= client.max_retries /\ AllTransient(r, n)) =>
         /\ hpc[r] \in {"backoff", "acquire", "net", "cancelled"}
         /\ Len(sleeps[r]) = n
         /\ netCalls[r] \in {n, n + 1}
    /\ (n >= 1 /\ n - 1 <= client.max_retries /\ AllTransient(r, n - 1)
          /\ Success(hist[r].outcomes[n])) =>
         /\ hpc[r] = "returned"
         /\ hres[r] = Outcome("json", 200)
         /\ netCalls[r] = n
         /\ Len(sleeps[r]) = n - 1

\* A timeout, then a 500 response, then a success: three network calls, two
\* sleeps, and the body is returned.
C12_Witness ==
  \E r \in Requests :
    /\ Ended(r) = 3
    /\ hist[r].outcomes[1].exc = "ConnectTimeout"
    /\ hist[r].outcomes[2].status = 500
    /\ Success(hist[r].outcomes[3])
    /\ hpc[r] = "returned" /\ netCalls[r] = 3 /\ Len(sleeps[r]) = 2

\* C13: a get_json call never makes more than max_retries + 1 network calls
\* nor sleeps more than max_retries times; when every call ends in a
\* retriable outcome it fails exactly when max_retries + 1 calls have ended,
\* having slept max_retries times (no sleep after the last one).
C13_AttemptsBounded ==
  \A r \in Requests :
    LET n == Ended(r)
        m == client.max_retries
    IN
    /\ netCalls[r] <= (IF m >= 0 THEN m + 1 ELSE 0)
    /\ Len(sleeps[r]) <= (IF m >= 0 THEN m ELSE 0)
    /\ (n >= 1 /\ AllTransient(r, n)) =>
         /\ hpc[r] = "raised" <=> n = m + 1
         /\ n = m + 1 =>
              /\ netCalls[r] = m + 1
              /\ Len(sleeps[r]) = m
              /\ hres[r].kind \notin {"none", "json", "CancelledError"}

\* A client with max_retries >= 2 exhausted its attempts on retriable
\* outcomes and the call failed.
C13_Witness ==
  \E r \in Requests :
    /\ client.max_retries >= 2
    /\ Ended(r) = client.max_retries + 1 /\ AllTransient(r, Ended(r))
    /\ hpc[r] = "raised" /\ Len(sleeps[r]) = client.max_retries

\* C14: a response with a 4xx status other than 429 ends get_json at once
\* with the status error: no further network call and no backoff sleep
\* follows it, so as the first outcome it leaves exactly one network call and
\* no sleep, whatever max_retries is.
C14_TerminalStatusNotRetried ==
  \A r \in Requests :
    LET n == Ended(r) IN
    (n >= 1 /\ TerminalStatus(hist[r].outcomes[n])) =>
      /\ hpc[r] = "raised"
      /\ hres[r] = Outcome("HTTPStatusError", hist[r].outcomes[n].status)
      /\ netCalls[r] = n
      /\ Len(sleeps[r]) = n - 1
      /\ n = 1 => (netCalls[r] = 1 /\ sleeps[r] = <<>>)

\* A client that still had retries left got a 404 on its first network call
\* and failed without sleeping.
C14_Witness ==
  \E r \in Requests :
    /\ client.max_retries >= 2
    /\ Ended(r) = 1 /\ hist[r].outcomes[1].status = 404
    /\ hpc[r] = "raised" /\ netCalls[r] = 1 /\ sleeps[r] = <<>>

\* C15: the i-th backoff delay of a get_json call is 50 ms * 2^(i-1), and
\* every delay after the first is twice the one before it.
C15_BackoffDoubles ==
  \A r \in Requests :
    \A i \in 1..Len(sleeps[r]) :
      /\ sleeps[r][i] = 50 * 2 ^ (i - 1)
      /\ i > 1 => sleeps[r][i] = 2 * sleeps[r][i - 1]

\* A call slept 50 ms, 100 ms and 200 ms.
C15_Witness == \E r \in Requests : sleeps[r] = <<50, 100, 200>>

\* C16: when the final attempt has been made and every outcome was retriable,
\* get_json raises the last exception encountered in any of its attempts if
\* there was one, and otherwise the status error of the last response.
C16_LastEncounteredException ==
  \A r \in Requests :
    LET n == Ended(r)
        h == hist[r].outcomes
        withExc == {i \in 1..n : h[i].exc # NoExc}
        lastExc == CHOOSE i \in withExc : \A j \in withExc : j <= i
    IN (n >= 1 /\ n = client.max_retries + 1 /\ AllTransient(r, n)) =>
         /\ hpc[r] = "raised"
         /\ hres[r] = (IF withExc # {} THEN Outcome(h[lastExc].exc, 0)
                       ELSE Outcome("HTTPStatusError", h[n].status))

\* C17: a client is never built on a base URL that is not https, a rejected
\* construction leaves nothing that could issue a request, and a get_json
\* call with a URL that is not https raises ValueError without having taken
\* a permit, issued a network call or slept.
C17_HttpsOnly ==
  /\ (ctorArgs.base_url = Url(HTTP_URL)) => client.state # "built"
  /\ client.state = "rejected" =>
       /\ sem = 0
       /\ \A r \in Requests : hpc[r] = "idle" /\ netCalls[r] = 0 /\ sleeps[r] = <<>>
  /\ \A r \in Requests :
       hist[r].url = HTTP_URL =>
         /\ hpc[r] = "raised" /\ hres[r] = Outcome("ValueError", 0)
         /\ netCalls[r] = 0 /\ ~holds[r] /\ sleeps[r] = <<>>
         /\ Ended(r) = 0

\* get_json was called with an http URL on a built client and raised.
C17_Witness ==
  \E r \in Requests :
    /\ client.state = "built"
    /\ hist[r].url = HTTP_URL
    /\ hpc[r] = "raised"

\* C18: no client exists that was constructed with a concurrency limit < 1,
\* a timeout < 1 or max_retries < 0, and every get_json call with an https
\* URL that has failed made at least one network call.
C18_ConstructionValidates ==
  /\ client.state = "built" =>
       /\ ctorArgs.concurrency.given => ctorArgs.concurrency.v >= 1
       /\ ctorArgs.timeout_seconds.given => ctorArgs.timeout_seconds.v >= 1
       /\ ctorArgs.max_retries.given => ctorArgs.max_retries.v >= 0
       /\ client.timeout_seconds >= 1 /\ client.max_retries >= 0
  /\ \A r \in Requests :
       (hpc[r] = "raised" /\ hist[r].url # HTTP_URL) => netCalls[r] >= 1


\* ------------------------------------------------- properties of SpecCache

\* C19: a get of a key whose last set (value v, made at clock time T with
\* TTL t) has not been undone by a delete, a clear, an eviction or an
\* overwrite returns v when now < T + t and nothing when now >= T + t; and a
\* get never returns a value whose entry has expires_at <= now.
C19_TtlRead ==
  lastOp.op = "get" =>
    /\ LET b == lastSet[lastOp.key] IN
         b.valid =>
           /\ now < b.expires => lastOp.value = b.value
           /\ now >= b.expires => lastOp.value = None
    /\ lastOp.value # None =>
         /\ lastOp.key \in DOMAIN cache.data
         /\ cache.data[lastOp.key].value = lastOp.value
         /\ cache.data[lastOp.key].expires_at > now

\* After the clock had advanced, a key was read exactly at the expiry time of
\* its last set, and the get returned nothing.
C19_Witness ==
  /\ lastOp.op = "get" /\ lastOp.value = None
  /\ lastSet[lastOp.key].valid
  /\ now = lastSet[lastOp.key].expires /\ now > 0

\* C20: the cache never stores more than max_entries entries, and the
\* insertion order lists exactly the stored keys.
C20_SizeBounded ==
  /\ Cardinality(DOMAIN cache.data) <= self_max_entries
  /\ Range(cache.order) = DOMAIN cache.data
  /\ Len(cache.order) = Cardinality(DOMAIN cache.data)

\* A set on a full cache evicted the oldest entry and left the cache full.
C20_Witness ==
  /\ lastOp.op = "set" /\ lastOp.evicted
  /\ Cardinality(DOMAIN cache.data) = self_max_entries
  /\ lastOp.key \in DOMAIN cache.data

\* ------------------------------------------------- properties of SpecCache,
\* the order of eviction and the operations' effects

\* The keys of C whose entries have not expired at time t.
LiveKeys(C, t) == {k \in DOMAIN C.data : C.data[k].expires_at > t}
\* The sequence seq without the elements outside S.
Restrict(seq, S) == SelectSeq(seq, LAMBDA x : x \in S)
\* The last n elements of seq (all of it when it is shorter).
LastN(seq, n) ==
  IF Len(seq) <= n THEN seq ELSE SubSeq(seq, Len(seq) - n + 1, Len(seq))

\* C21: between cache operations the eviction order holds exactly the keys of
\* the entry map, each once, in ascending order of the time of their most
\* recent set: the i-th key of the order is the one with the i-th oldest set.
C21_OrderMatchesEntries ==
  /\ Range(cache.order) = DOMAIN cache.data
  /\ Len(cache.order) = Cardinality(DOMAIN cache.data)
  /\ \A i \in 1..Len(cache.order) : setRank[cache.order[i]] = i

\* A key that headed an order of two keys was set again and now stands last.
C21_Witness ==
  /\ lastOp.op = "set" /\ lastOp.pos = 1
  /\ Len(cache.order) = 2
  /\ cache.order[2] = lastOp.key

\* C22: a set of a key that is not stored (or whose entry has expired) keeps
\* the unexpired keys in their order, puts the new key last, and evicts from
\* the head of that order exactly as many keys as exceed max_entries and no
\* other key: a cache full of unexpired entries loses exactly its
\* least recently set key, and every entry that stays is unchanged.
C22_EvictsOldestOnly ==
  [][(lastOp'.op = "set" /\ lastOp'.pos = 0) =>
       LET k == lastOp'.key
           L == Restrict(cache.order, LiveKeys(cache, now))
           kept == LastN(Append(L, k), self_max_entries)
       IN /\ cache'.order = kept
          /\ DOMAIN cache'.data = Range(kept)
          /\ lastOp'.evicted <=> (Len(L) + 1 > self_max_entries)
          /\ Len(L) = self_max_entries => cache'.order = Append(Tail(L), k)
          /\ Len(L) < self_max_entries => cache'.order = Append(L, k)
          /\ \A j \in Range(kept) \ {k} : cache'.data[j] = cache.data[j]]_vars

\* With max_entries = 2, a third key was set into a full cache: one key was
\* evicted and the new key stands last of the two that are stored.
C22_Witness ==
  /\ lastOp.op = "set" /\ lastOp.pos = 0 /\ lastOp.evicted
  /\ self_max_entries = 2
  /\ Len(cache.order) = 2
  /\ cache.order[2] = lastOp.key
  /\ \A j \in DOMAIN cache.data : cache.data[j].expires_at > now

\* C23: a set of a key whose entry is stored and unexpired replaces the value,
\* makes the expiry now + ttl, and moves the key to the tail of the order; the
\* keys stored stay the same ones, nothing is evicted, and every other entry
\* and the other keys' relative order are unchanged.
C23_OverwriteRefreshes ==
  [][(lastOp'.op = "set" /\ lastOp'.pos > 0) =>
       LET k == lastOp'.key
           L == Restrict(cache.order, LiveKeys(cache, now))
       IN /\ cache'.data[k] = [value |-> lastSet'[k].value,
                               expires_at |-> lastSet'[k].expires]
          /\ cache'.data[k].expires_at \in {now, now + cacheCtor.default_ttl_seconds}
          /\ cache'.order = Append(Without(L, k), k)
          /\ Len(cache'.order) = Len(L)
          /\ DOMAIN cache'.data = Range(L)
          /\ ~lastOp'.evicted
          /\ \A j \in Range(L) \ {k} : cache'.data[j] = cache.data[j]]_vars

\* With max_entries = 2, the older of two stored keys was set again with its
\* second value: it now stands last, so the other key is the next to go.
C23_Witness ==
  /\ lastOp.op = "set" /\ lastOp.pos = 1
  /\ self_max_entries = 2
  /\ Len(cache.order) = 2
  /\ cache.order[2] = lastOp.key
  /\ cache.data[lastOp.key] = [value |-> Response(lastOp.key, 2),
                               expires_at |-> now + CACHE_TTL_SECONDS]

\* C24: a get changes no unexpired entry and not their order: after get(k) the
\* cache holds exactly the entries that had not expired, with their values
\* and expiry times, in the order they had; the key read is not moved.
C24_GetKeepsOrder ==
  [][lastOp'.op = "get" =>
       LET live == LiveKeys(cache, now) IN
         /\ cache'.order = Restrict(cache.order, live)
         /\ DOMAIN cache'.data = live
         /\ \A j \in live : cache'.data[j] = cache.data[j]]_vars

\* The oldest of two stored keys was read with a hit and is still the head of
\* the order, the next key to be evicted.
C24_Witness ==
  /\ lastOp.op = "get" /\ lastOp.value # None /\ lastOp.pos = 1
  /\ Len(cache.order) = 2
  /\ cache.order[1] = lastOp.key

\* C25: delete(k) removes the entry of k and its place in the order and
\* nothing else: a get of k right after finds nothing, every other entry and
\* the other keys' order are as before, a delete of a key that is not stored
\* leaves the cache as it was, and a second delete changes nothing.
C25_DeleteRemovesOnlyKey ==
  [][lastOp'.op = "delete" =>
       LET k == lastOp'.key IN
         /\ k \notin DOMAIN cache'.data
         /\ k \notin Range(cache'.order)
         /\ get(cache', k, now).value = None
         /\ DOMAIN cache'.data = DOMAIN cache.data \ {k}
         /\ \A j \in DOMAIN cache'.data : cache'.data[j] = cache.data[j]
         /\ cache'.order = Without(cache.order, k)
         /\ k \notin DOMAIN cache.data => cache' = cache
         /\ delete_unlocked(cache', k) = cache']_vars

\* The older of two stored keys was deleted; the other key is still stored.
C25_Witness ==
  /\ lastOp.op = "delete" /\ lastOp.pos = 1
  /\ lastOp.key \notin DOMAIN cache.data
  /\ Len(cache.order) = 1

\* C26: right after clear() the cache holds no entry and no key in its order,
\* and a get of any key finds nothing; in no state between operations is one
\* of the entry map and the order empty while the other is not.
C26_ClearRemovesAll ==
  /\ lastOp.op = "clear" =>
       /\ DOMAIN cache.data = {}
       /\ cache.order = <<>>
       /\ \A k \in CacheKeys : get(cache, k, now).value = None
  /\ (cache.order = <<>>) <=> (DOMAIN cache.data = {})

\* A cache that held two entries was cleared.
C26_Witness ==
  /\ lastOp.op = "clear" /\ lastOp.pos = 2
  /\ DOMAIN cache.data = {}

C28_InvalidParametersRejected ==
  [][/\ cacheCtor.state # "rejected"
     /\ cacheCtor'.state = "built" =>
          cacheCtor'.default_ttl_seconds >= 0 /\ cacheCtor'.max_entries >= 1
     /\ cacheCtor'.state = "rejected" =>
          /\ cacheCtor'.default_ttl_seconds < 0 \/ cacheCtor'.max_entries < 1
          /\ cache' = clear(cache) /\ self_max_entries' = 0
     /\ lastOp'.op = "set_rejected" => cache' = cache /\ lastSet' = lastSet
     /\ lastOp'.op = "set" =>
          /\ lastOp'.key \in DOMAIN cache'.data
          /\ cache'.data[lastOp'.key].expires_at >= now]_vars

\* A set with a negative ttl_seconds was refused on a cache holding two
\* entries, which are still there.
C28_Witness ==
  /\ lastOp.op = "set_rejected"
  /\ cacheCtor.state = "built"
  /\ Len(cache.order) = 2
  /\ Cardinality(DOMAIN cache.data) = 2

\* ------------------------------------------------- properties of SpecFacade,
\* the cache writes of the computation

\* C29: the cache is written before anyone receives the result: the step in
\* which a computation for key k finishes with a value leaves the entry for k
\* holding that value with a full TTL, and a caller returns a value only in a
\* later step, when the computation that produced it for the caller's key had
\* already finished with that value.
C29_CacheSetBeforeReturn ==
  [][/\ \A t \in Tasks :
          (tOutcome[t] # "value" /\ tOutcome'[t] = "value") =>
            /\ tKey[t] \in DOMAIN cache'.data
            /\ cache'.data[tKey[t]] = [value |-> Response(tKey[t], t),
                                       expires_at |-> now + CACHE_TTL_SECONDS]
     /\ \A c \in Callers :
          (pc[c] # "returned" /\ pc'[c] = "returned") =>
            /\ result'[c].kind = "value"
            /\ result'[c].by \in Tasks
            /\ tOutcome[result'[c].by] = "value"
            /\ tKey[result'[c].by] = cKey'[c]]_vars

\* A caller that awaited a computation has returned its value, and the cache
\* holds the entry that computation wrote for the caller's key.
C29_Witness ==
  \E c \in Callers :
    /\ pc[c] = "returned" /\ joined[c] # NoTask
    /\ result[c] = [kind |-> "value", by |-> joined[c]]
    /\ cKey[c] \in DOMAIN cache.data
    /\ cache.data[cKey[c]].value = Response(cKey[c], joined[c])

\* C30: a computation that fails writes nothing to the cache, and every caller
\* sharing it is raised its error: no cache entry comes from a failed
\* computation, no caller is returned a value that a failed computation or
\* another key's computation produced, the registration of a failed
\* computation is gone once its cleanup ran, no later caller is handed a
\* finished computation, and every computation started makes its own
\* upstream fetch.
C30_FailureNotCached ==
  /\ \A t \in Tasks :
       tOutcome[t] = "error" =>
         /\ \A k \in DOMAIN cache.data : cache.data[k].value.by # t
         /\ \A c \in Callers :
              joined[c] = t =>
                /\ pc[c] \in {"awaiting", "raised"}
                /\ pc[c] = "raised" => result[c] = [kind |-> "error", by |-> t]
         /\ tCleaned[t] # "pending" => inflight[tKey[t]] # t
  /\ \A c \in Callers :
       /\ pc[c] = "returned" =>
            /\ result[c].kind = "value"
            /\ tOutcome[result[c].by] = "value"
            /\ tKey[result[c].by] = cKey[c]
       /\ joined[c] # NoTask => ~staleJoin[c]
  /\ \A k \in Keys :
       upstream[k] =
         Cardinality({t \in Tasks : tKey[t] = k /\ tState[t] \in {"running", "done"}})

\* Two callers shared a computation that failed and both were raised its
\* error; a third caller of the same key then started a second computation,
\* which made a second upstream fetch, and the cache holds nothing from the
\* failed one.
C30_Witness ==
  \E c1, c2, c3 \in Callers :
    /\ c1 # c2 /\ joined[c1] = joined[c2] /\ joined[c1] # NoTask
    /\ tOutcome[joined[c1]] = "error"
    /\ pc[c1] = "raised" /\ pc[c2] = "raised"
    /\ joined[c3] # NoTask /\ joined[c3] # joined[c1]
    /\ cKey[c3] = cKey[c1]
    /\ tState[joined[c3]] \in {"running", "done"}
    /\ upstream[cKey[c1]] = 2
    /\ inflight[cKey[c1]] # joined[c1]

\* ------------------------------------------------- properties of SpecSFLive

\* C31: a finished computation cannot be joined.  has_inflight(key) is true
\* exactly when a computation of the key has not finished yet; no run is
\* handed a computation that had already finished, and what a caller
\* receives is the outcome of the computation it was handed, so a run after
\* the finish invokes its producer anew; and the registration of a finished
\* computation is eventually gone.
C31_FinishedNotJoinable ==
  /\ [](\A k \in Keys :
          has_inflight(k) <=> (\E t \in Tasks : tKey[t] = k /\ Unfinished(t)))
  /\ [](\A c \in Callers :
          /\ joined[c] # NoTask => ~staleJoin[c]
          /\ Received(c) => result[c].by = joined[c])
  /\ \A t \in Tasks : Done(t) ~> ~(tKey[t] # 0 /\ inflight[tKey[t]] = t)

\* A computation finished with a value and its registration was removed; a
\* later run of the same key created a second computation, which is in
\* flight, and the producer has been invoked twice.
C31_Witness ==
  \E t1, t2 \in Tasks, c \in Callers :
    /\ t1 # t2 /\ tKey[t1] = tKey[t2]
    /\ Done(t1) /\ tOutcome[t1] = "value" /\ tCleaned[t1] = "removed"
    /\ joined[c] = t2 /\ Creator(t2) = c
    /\ tState[t2] = "running"
    /\ has_inflight(tKey[t2])
    /\ calls[tKey[t2]] = 2

\* ------------------------------------------------- properties of SpecVersions

\* C32: with include_prereleases = False, the latest version returned by
\* get_latest_version_core and every version returned by get_versions_core is
\* one of the upstream versions that is not a pre-release, and a value
\* returned is never empty; an upstream reply without versions, or (with the
\* flag off) with pre-releases only, ends in an error.
C32_StableOnly ==
  LET all == vArgs.all_versions
      asked == vOut.op \in {"latest", "versions"}
  IN /\ (asked /\ all = <<>>) => vOut.kind = "no_versions"
     /\ (asked /\ ~vArgs.include_prereleases) =>
          /\ (all # <<>> /\ \A i \in 1..Len(all) : is_prerelease(all[i]))
               => vOut.kind = "all_prereleases"
          /\ (vOut.kind = "value" /\ vOut.op = "latest") =>
               /\ vOut.latest # NoVersion
               /\ vOut.latest \in Range(all)
               /\ ~is_prerelease(vOut.latest)
          /\ (vOut.kind = "value" /\ vOut.op = "versions") =>
               /\ vOut.versions # <<>>
               /\ \A i \in 1..Len(vOut.versions) :
                    vOut.versions[i] \in Range(all) /\ ~is_prerelease(vOut.versions[i])
     /\ asked => vOut.kind \in {"value", "no_versions", "all_prereleases"}

\* The latest stable version was returned although the upstream reply held a
\* pre-release that orders above it.
C32_Witness ==
  /\ vOut.op = "latest" /\ vOut.kind = "value"
  /\ ~vArgs.include_prereleases
  /\ \E i \in 1..Len(vArgs.all_versions) :
       /\ is_prerelease(vArgs.all_versions[i])
       /\ compare_versions(vArgs.all_versions[i], vOut.latest) > 0

\* C40: compare_versions is a total order: compare_versions(a, b) =
\* -compare_versions(b, a), and a <= b and b <= c give a <= c, for all
\* versions a, b, c; and the latest version selected from a list is the same,
\* up to versions that compare equal, in whatever order the list is given.
C40_TotalOrder ==
  LET all == vArgs.all_versions IN
  /\ vOut.op = "compare" =>
       \A i, j, k \in 1..Len(all) :
         /\ vOut.cmp[i][j] = -vOut.cmp[j][i]
         /\ (vOut.cmp[i][j] <= 0 /\ vOut.cmp[j][k] <= 0) => vOut.cmp[i][k] <= 0
  /\ (vOut.op = "sort" /\ Len(all) >= 2) =>
       LET swapped == <<all[2], all[1]>> \o SubSeq(all, 3, Len(all))
           other == sort_versions(swapped)
       IN compare_versions(vOut.versions[Len(all)], other[Len(all)]) = 0

\* ------------------------------------------------- properties of SpecClient,
\* what is retried

\* The outcomes the specification names as retriable: a connection or read
\* failure, a connect timeout, or a response with status 429 or 5xx.
RetriableOutcome(o) ==
  \/ o.exc \in {"ConnectTimeout", "ReadError"}
  \/ o.exc = NoExc /\ (o.status = 429 \/ (500 <= o.status /\ o.status <= 599))
\* An exception outside the transient set: a pool timeout, or a body of a
\* 200 response that is not JSON.
OtherException(o) ==
  \/ o.exc = "PoolTimeout"
  \/ o.exc = NoExc /\ o.status = 200 /\ ~o.json_ok

\* C33: the i-th network call of a get_json call is followed by a backoff
\* sleep exactly when attempts remain (i <= max_retries) and its outcome is a
\* transient network failure or a response with status 429 or 5xx; the sleep
\* after a 429 or 5xx response is the same as after a transient exception,
\* 50 ms * 2^(i-1).
C33_RetriedIffTransient ==
  \A r \in Requests :
    \A i \in 1..Ended(r) :
      /\ (Len(sleeps[r]) >= i) <=>
           (i <= client.max_retries /\ RetriableOutcome(hist[r].outcomes[i]))
      /\ Len(sleeps[r]) >= i => sleeps[r][i] = BASE_DELAY_MS * (2 ^ (i - 1))

\* A 429 response and then a broken read were each followed by a sleep, of 50
\* and of 100 ms.
C33_Witness ==
  \E r \in Requests :
    /\ Ended(r) = 2
    /\ hist[r].outcomes[1].status = 429
    /\ hist[r].outcomes[2].exc = "ReadError"
    /\ sleeps[r] = <<50, 100>>
    /\ hpc[r] = "backoff"

\* C34: a network call that ends in an exception outside the transient set
\* ends get_json: that exception is raised, no sleep and no network call
\* follows, and as the first outcome it leaves one network call and no sleep,
\* whatever max_retries is.
C34_OtherExceptionNotRetried ==
  \A r \in Requests :
    LET n == Ended(r) IN
    (n >= 1 /\ OtherException(hist[r].outcomes[n])) =>
      /\ hpc[r] = "raised"
      /\ hres[r].kind =
           (IF hist[r].outcomes[n].exc = NoExc THEN "JSONDecodeError"
            ELSE hist[r].outcomes[n].exc)
      /\ netCalls[r] = n
      /\ Len(sleeps[r]) = n - 1
      /\ n = 1 => (netCalls[r] = 1 /\ sleeps[r] = <<>>)

\* A client with three retries got a 200 response whose body is not JSON on
\* its first network call: the decode error was raised, without a sleep.
C34_Witness ==
  \E r \in Requests :
    /\ client.max_retries = 3
    /\ Ended(r) = 1
    /\ hist[r].outcomes[1] = [exc |-> NoExc, status |-> 200, json_ok |-> FALSE]
    /\ hpc[r] = "raised" /\ hres[r].kind = "JSONDecodeError"
    /\ netCalls[r] = 1 /\ sleeps[r] = <<>>

\* ------------------------------------------------- properties of SpecHttpLive

\* A get_json call that is over: it returned a value or raised (CancelledError
\* included).
CallOver(r) == hpc[r] \in {"returned", "raised", "cancelled"}

\* C35: every get_json call eventually returns a value or raises, whether it
\* waits for the gate, for the network, or in a backoff sleep, with every
\* request competing for the permits; and it never makes more than
\* max_retries + 1 network calls on the way.
C35_GetJsonTerminates ==
  /\ \A r \in Requests : (hpc[r] \in {"acquire", "net", "backoff"}) ~> CallOver(r)
  /\ [](\A r \in Requests : netCalls[r] <= client.max_retries + 1)

\* Every request is over, two of them after a retry, which with two permits
\* and three requests means the gate was contended.
C35_Witness ==
  /\ \A r \in Requests : hpc[r] \in {"returned", "raised"}
  /\ Cardinality({r \in Requests : netCalls[r] = 2 /\ Len(sleeps[r]) = 1}) >= 2
  /\ \E r \in Requests : hpc[r] = "returned" /\ netCalls[r] = 2

\* ------------------------------------------------- properties of SpecQueries

\* C36: whatever a query returns or raises, from the cache or from a shared
\* computation, was computed for its own query type and for a key equal to its
\* own in every component; each query type reads and writes only its own
\* cache and deduper, so the entries of a pair all come from that pair's type.
C36_NoCrossing ==
  /\ \A c \in Callers :
       nsCall[c].pc = "done" =>
         /\ nsCall[c].result.type = nsCall[c].type
         /\ nsCall[c].result.key = cache_key(nsCall[c].type, nsCall[c].args)
  /\ \A type \in QueryTypes :
       /\ \A e \in nsCache[pair(type)] : e.resp.type = type /\ e.resp.key = e.key
       /\ \A e \in nsInflight[pair(type)] :
            nsTasks[e.task].type = type /\ nsTasks[e.task].key = e.key

\* get_versions and get_latest_version were called with the same key tuple
\* while the latest version was cached: get_latest_version was served from the
\* cache, get_versions made its own computation and got its own response.
C36_Witness ==
  \E c1, c2 \in Callers :
    /\ nsCall[c1].type = "get_latest_version" /\ nsCall[c2].type = "get_versions"
    /\ nsCall[c1].args = nsCall[c2].args
    /\ nsCall[c1].pc = "done" /\ nsCall[c2].pc = "done"
    /\ nsCall[c1].result.kind = "value" /\ nsCall[c2].result.kind = "value"
    /\ nsCall[c1].awaits = 0
    /\ nsCall[c2].awaits # 0
    /\ Cached("_versions", cache_key("get_latest_version", nsCall[c1].args)) # {}

\* ------------------------------------------------- properties of SpecCache,
\* what a set evicts

\* C37: a set discards every entry that has expired at the time of the set
\* before it inserts and evicts: afterwards no other key's entry is expired,
\* and when the unexpired keys together with the new key are no more than
\* max_entries, every unexpired entry is still stored unchanged and nothing
\* was evicted.
C37_ExpiredDoNotCount ==
  [][lastOp'.op = "set" =>
       LET k == lastOp'.key
           L == LiveKeys(cache, now)
       IN /\ \A j \in DOMAIN cache'.data \ {k} : cache'.data[j].expires_at > now
          /\ Cardinality(L \cup {k}) <= self_max_entries =>
               /\ \A j \in L \ {k} : j \in DOMAIN cache'.data /\ cache'.data[j] = cache.data[j]
               /\ DOMAIN cache'.data = L \cup {k}
               /\ ~lastOp'.evicted]_vars

\* With max_entries = 2 the cache held an unexpired key set first and an
\* expired key set after it; a third key was set: the expired entry is gone,
\* the unexpired one stayed, nothing was evicted.
C37_Witness ==
  /\ lastOp.op = "set" /\ lastOp.pos = 0 /\ ~lastOp.evicted
  /\ self_max_entries = 2
  /\ Len(cache.order) = 2
  /\ cache.order[2] = lastOp.key
  /\ cache.data[cache.order[1]].expires_at > now
  /\ \E j \in CacheKeys \ Range(cache.order) :
       lastSet[j].valid /\ lastSet[j].expires <= now

\* C38: when set(k, v) with a positive TTL has completed, k is stored with
\* value v and an expiry after the current time, it stands last in the
\* eviction order, and get(k) at the same clock time returns v, whatever the
\* cache held before and for every max_entries >= 1.
C38_SetKeepsOwnKey ==
  [][lastOp'.op = "set" =>
       LET k == lastOp'.key IN
       \A n \in Versions, ttl \in TtlArgs :
         (/\ if_not_none(ttl, cacheCtor.default_ttl_seconds) > 0
          /\ CacheSet(k, Response(k, n), ttl)) =>
           /\ k \in DOMAIN cache'.data
           /\ cache'.data[k].value = Response(k, n)
           /\ cache'.data[k].expires_at > now'
           /\ cache'.order # <<>> /\ cache'.order[Len(cache'.order)] = k
           /\ get(cache', k, now').value = Response(k, n)
           /\ self_max_entries >= 1]_vars

\* With max_entries = 1 a key was set into a cache that held another,
\* unexpired key: the other key was evicted and the new key is the one stored.
C38_Witness ==
  /\ lastOp.op = "set" /\ lastOp.pos = 0 /\ lastOp.evicted
  /\ self_max_entries = 1
  /\ cache.order = <<lastOp.key>>
  /\ DOMAIN cache.data = {lastOp.key}
  /\ cache.data[lastOp.key].expires_at > now
  /\ get(cache, lastOp.key, now).value = cache.data[lastOp.key].value

\* ------------------------------------------------- properties of
\* SpecFacadeCancel

\* Every caller that was handed computation t has been cancelled.
Abandoned(t) ==
  /\ tState[t] # "absent"
  /\ \A c \in Callers : joined[c] = t => pc[c] = "cancelled"

\* C39: a computation whose awaiting callers have all been cancelled is never
\* cancelled itself and makes its one upstream fetch; it finishes and its
\* registration is then removed; when it finishes with a response, the
\* response is written to the cache with a full TTL; and a later query of the
\* same key that finds that entry unexpired returns it without joining or
\* starting a computation and without an upstream fetch.
C39_AbandonedComputationCompletes ==
  /\ [](/\ \A t \in Tasks : tOutcome[t] # "cancelled"
        /\ \A k \in Keys :
             upstream[k] =
               Cardinality({t \in Tasks : tKey[t] = k /\ tState[t] \in {"running", "done"}}))
  /\ \A t \in Tasks :
       (Abandoned(t) /\ Unfinished(t)) ~>
         (Done(t) /\ tCleaned[t] # "pending" /\ inflight[tKey[t]] # t)
  /\ [][/\ \A t \in Tasks :
             (Abandoned(t) /\ tOutcome[t] # "value" /\ tOutcome'[t] = "value") =>
               /\ tKey[t] \in DOMAIN cache'.data
               /\ cache'.data[tKey[t]] = [value |-> Response(tKey[t], t),
                                          expires_at |-> now + CACHE_TTL_SECONDS]
        /\ \A c \in Callers, t \in Tasks :
             (/\ pc[c] = "idle" /\ pc'[c] # "idle"
              /\ Abandoned(t) /\ tOutcome[t] = "value"
              /\ cKey'[c] = tKey[t]
              /\ tKey[t] \in DOMAIN cache.data
              /\ cache.data[tKey[t]].value = Response(tKey[t], t)
              /\ cache.data[tKey[t]].expires_at > now) =>
               /\ pc'[c] = "returned"
               /\ result'[c] = [kind |-> "value", by |-> t]
               /\ joined'[c] = NoTask
               /\ upstream' = upstream /\ calls' = calls /\ inflight' = inflight]_vars

\* Two callers shared a computation and both were cancelled before it
\* finished; it finished with a response and was unregistered; a third caller
\* of the same key was then served from the cache: one upstream fetch in all.
C39_Witness ==
  \E c1, c2, c3 \in Callers :
    /\ c1 # c2 /\ joined[c1] # NoTask /\ joined[c1] = joined[c2]
    /\ pc[c1] = "cancelled" /\ cancelledEarly[c1]
    /\ pc[c2] = "cancelled" /\ cancelledEarly[c2]
    /\ tOutcome[joined[c1]] = "value"
    /\ tCleaned[joined[c1]] = "removed" /\ inflight[cKey[c1]] = NoTask
    /\ cKey[c3] = cKey[c1] /\ joined[c3] = NoTask /\ liveAtCall[c3]
    /\ pc[c3] = "returned" /\ result[c3] = [kind |-> "value", by |-> joined[c1]]
    /\ upstream[cKey[c1]] = 1

====
